---------------------------- MODULE Spec2Model ----------------------------
(***************************************************************************)
(* Model of the tabular-ontology codec dcc_tabular_transform.py            *)
(* (graph -> table, table -> graph, alignment and label-language reports). *)
(*                                                                         *)
(* Text is modelled character by character: a string is a sequence of      *)
(* one-character strings, so that startswith / "in" / split / rsplit are   *)
(* computed as the code computes them.  Namespace IRIs are abbreviated     *)
(* (http://o# for OWL, http://s# for SKOS, ...): the code only looks at    *)
(* their shape (scheme, "://", absence of "@", "^^", "|", blanks).         *)
(***************************************************************************)
EXTENDS Integers, Sequences, FiniteSets, TLC

VARIABLES
    mode,         \* what the run does: export, import, roundtrip, validate, codec, cell
    pc,           \* position of the run
    lit,          \* literal handed to _literal_to_text
    cell,         \* cell text produced by _literal_to_text
    relit,        \* literal reparsed by _literal_from_value
    graph,        \* source graph: a set of triples <<s, p, o>>
    enum_order,   \* order in which the store enumerates triples
    rows,         \* row sequence (output of graph_to_table / CSV input)
    regraph,      \* graph rebuilt by table_to_graph
    identical,    \* RoundTripReport.identical
    schema_terms, \* set of schema term IRIs (strings)
    areport,      \* AlignmentReport
    lreport,      \* LabelLanguageReport
    printed,      \* the four category counts main prints
    prefixes,     \* prefix bindings of the loaded graph: <<prefix, namespace>>
    args,         \* flags supplied on the command line
    io,           \* files read and written and errors reported, in order
    instances_graph, \* graph filled by the D-SI conversion
    child,        \* XML element handed to process_elt's branch
    response      \* outcomes of the remote unit fetches, in call order

vars == <<mode, pc, lit, cell, relit, graph, enum_order, rows, regraph, identical,
          schema_terms, areport, lreport, printed, prefixes, args, io,
          instances_graph, child, response>>

-----------------------------------------------------------------------------
(* Bounds of the model *)

\* longest lexical value of a literal fed to the literal codec
MaxLen == 3
\* most fragments an input ontology is assembled from
MaxFragments == 3
\* most filler entities (German preferred label only) in an audited graph
MaxFill == 11
\* most skos:exactMatch triples in an audited graph
MaxLinks == 3
\* most label triples on the entity whose labels vary in an audited graph
MaxLabels == 3

-----------------------------------------------------------------------------
(* Strings *)

\* characters in code-point order (Python compares str by code point)
CharOrder ==
    << " ", "#", "(", ")", ",", "/", "0", "1", "2", "3", "4", "5", "6", "7",
       "8", "9", ":", "<", ">", "@", "A", "B", "C", "D", "E", "F", "G", "I",
       "L", "M", "N", "O", "P", "Q", "R", "S", "T", "U", "X", "^", "_", "a",
       "b", "c", "d", "e", "f", "g", "h", "i", "l", "m", "n", "o", "p", "q",
       "r", "s", "t", "u", "v", "x", "y", "|" >>

Ord(c) == CHOOSE i \in 1..Len(CharOrder) : CharOrder[i] = c

Min2(a, b) == IF a <= b THEN a ELSE b

\* first position at which s and t differ; 0 when one is a prefix of the other
FirstDiff(s, t) ==
    LET diff == {i \in 1..Min2(Len(s), Len(t)) : s[i] # t[i]}
    IN  IF diff = {} THEN 0 ELSE CHOOSE j \in diff : \A k \in diff : j <= k

\* s < t decided at position i = FirstDiff(s, t)
LessAt(s, t, i) == IF i = 0 THEN Len(s) < Len(t) ELSE Ord(s[i]) < Ord(t[i])

\* s < t in Python's str order
StrLess(s, t) == LessAt(s, t, FirstDiff(s, t))

StartsWith(s, pre) ==
    /\ Len(s) >= Len(pre)
    /\ \A i \in 1..Len(pre) : s[i] = pre[i]

EndsWith(s, suf) ==
    /\ Len(s) >= Len(suf)
    /\ \A i \in 1..Len(suf) : s[Len(s) - Len(suf) + i] = suf[i]

\* positions at which sub occurs in s
Occurrences(s, sub) ==
    {i \in 1..(Len(s) - Len(sub) + 1) :
        \A j \in 1..Len(sub) : s[i + j - 1] = sub[j]}

Contains(s, sub) == Occurrences(s, sub) # {}

SetMax(S) == CHOOSE x \in S : \A y \in S : y <= x
SetMin(S) == CHOOSE x \in S : \A y \in S : x <= y

\* s[a..b] as Python's slice (empty when a > b)
Slice(s, a, b) == IF a > b THEN <<>> ELSE SubSeq(s, a, b)

IsSpace(c) == c = " "

RECURSIVE LStrip(_)
LStrip(s) == IF s # <<>> /\ IsSpace(Head(s)) THEN LStrip(Tail(s)) ELSE s

RECURSIVE RStrip(_)
RStrip(s) ==
    IF s # <<>> /\ IsSpace(s[Len(s)]) THEN RStrip(SubSeq(s, 1, Len(s) - 1)) ELSE s

\* str.strip()
Strip(s) == RStrip(LStrip(s))

\* str.split(d) for a one-character delimiter d
RECURSIVE Split(_, _)
Split(s, d) ==
    LET occ == {i \in 1..Len(s) : s[i] = d}
    IN  IF occ = {}
        THEN <<s>>
        ELSE LET i == SetMin(occ)
             IN  <<Slice(s, 1, i - 1)>> \o Split(Slice(s, i + 1, Len(s)), d)

\* "d".join(parts)
RECURSIVE Join(_, _)
Join(parts, d) ==
    IF parts = <<>> THEN <<>>
    ELSE IF Len(parts) = 1 THEN parts[1]
    ELSE parts[1] \o d \o Join(Tail(parts), d)

\* decimal text of a small natural number
Digit(n) == CharOrder[7 + n]
NumStr(n) == IF n < 10 THEN <<Digit(n)>> ELSE <<Digit(n \div 10), Digit(n % 10)>>

\* the elements of a sequence
Range(q) == {q[i] : i \in 1..Len(q)}

\* list(dict.fromkeys(q)): first occurrences, in order
RECURSIVE Dedup(_)
Dedup(q) ==
    IF q = <<>> THEN <<>>
    ELSE LET init == Dedup(SubSeq(q, 1, Len(q) - 1))
             x == q[Len(q)]
         IN  IF x \in Range(init) THEN init ELSE Append(init, x)

\* sorted(S) for a set of strings
SortedStrings(S) ==
    [i \in 1..Cardinality(S) |->
        CHOOSE x \in S : Cardinality({y \in S : StrLess(y, x)}) = i - 1]

-----------------------------------------------------------------------------
(* RDF terms: URIRef, BNode, Literal *)

NoStr == <<>>

URIRef(s) == [k |-> "uri", s |-> s, lang |-> NoStr, dt |-> NoStr]
BNode(s) == [k |-> "bnode", s |-> s, lang |-> NoStr, dt |-> NoStr]
\* Literal(lexical, lang=..., datatype=...); the empty string stands for None
Literal(s, lang, dt) == [k |-> "lit", s |-> s, lang |-> lang, dt |-> dt]
\* Python's None where a term is expected
None == [k |-> "none", s |-> NoStr, lang |-> NoStr, dt |-> NoStr]

IsURIRef(t) == t.k = "uri"
IsBNode(t) == t.k = "bnode"
IsLiteral(t) == t.k = "lit"

\* str(term): the IRI, the blank node id, the lexical form
Str(t) == t.s

s_http == <<"h", "t", "t", "p">>
s_scheme == s_http \o <<":", "/", "/">>

OWL(n) == URIRef(s_scheme \o <<"o", "#">> \o n)
SKOS(n) == URIRef(s_scheme \o <<"s", "#">> \o n)
RDFS(n) == URIRef(s_scheme \o <<"r", "#">> \o n)
RDF(n) == URIRef(s_scheme \o <<"f", "#">> \o n)
XSD(n) == URIRef(s_scheme \o <<"x", "#">> \o n)

RDF_type == RDF(<<"t", "y">>)
RDF_first == RDF(<<"f", "s">>)
RDF_rest == RDF(<<"r", "s">>)
RDF_nil == RDF(<<"n", "l">>)

RDFS_label == RDFS(<<"l", "b">>)
RDFS_comment == RDFS(<<"c", "m">>)
RDFS_subClassOf == RDFS(<<"s", "C">>)
RDFS_domain == RDFS(<<"d", "m">>)
RDFS_range == RDFS(<<"r", "g">>)
RDFS_Datatype == RDFS(<<"D", "t">>)

SKOS_prefLabel == SKOS(<<"p", "L">>)
SKOS_altLabel == SKOS(<<"a", "L">>)
SKOS_definition == SKOS(<<"d", "f">>)
SKOS_example == SKOS(<<"e", "x">>)
SKOS_exactMatch == SKOS(<<"e", "M">>)

OWL_Class == OWL(<<"C", "l">>)
OWL_ObjectProperty == OWL(<<"O", "P">>)
OWL_DatatypeProperty == OWL(<<"D", "P">>)
OWL_AnnotationProperty == OWL(<<"A", "P">>)
OWL_AllDisjointClasses == OWL(<<"A", "D">>)
OWL_Restriction == OWL(<<"R", "s">>)
OWL_onProperty == OWL(<<"o", "P">>)
OWL_someValuesFrom == OWL(<<"s", "V">>)
OWL_allValuesFrom == OWL(<<"a", "V">>)
OWL_minQualifiedCardinality == OWL(<<"m", "Q">>)
OWL_minCardinality == OWL(<<"m", "C">>)
OWL_maxQualifiedCardinality == OWL(<<"M", "Q">>)
OWL_maxCardinality == OWL(<<"M", "C">>)
OWL_qualifiedCardinality == OWL(<<"q", "C">>)
OWL_cardinality == OWL(<<"c", "d">>)
OWL_onClass == OWL(<<"o", "C">>)
OWL_onDataRange == OWL(<<"o", "D">>)
OWL_equivalentClass == OWL(<<"e", "C">>)
OWL_disjointWith == OWL(<<"d", "W">>)
OWL_unionOf == OWL(<<"u", "O">>)
OWL_intersectionOf == OWL(<<"i", "O">>)
OWL_oneOf == OWL(<<"o", "O">>)
OWL_members == OWL(<<"m", "b">>)
OWL_inverseOf == OWL(<<"i", "v">>)
OWL_FunctionalProperty == OWL(<<"F", "P">>)
OWL_InverseFunctionalProperty == OWL(<<"I", "F">>)
OWL_SymmetricProperty == OWL(<<"S", "P">>)
OWL_AsymmetricProperty == OWL(<<"A", "S">>)
OWL_ReflexiveProperty == OWL(<<"R", "P">>)
OWL_IrreflexiveProperty == OWL(<<"I", "P">>)
OWL_TransitiveProperty == OWL(<<"T", "P">>)

XSD_integer == XSD(<<"i", "n">>)

DCTERMS_SOURCE == URIRef(s_scheme \o <<"t", "/", "s", "r">>)

s_en == <<"e", "n">>
s_de == <<"d", "e">>
s_fr == <<"f", "r">>

-----------------------------------------------------------------------------
(* Literal codec *)

\* bool(x) of an rdflib term: a Literal is as true as its Python value (an
\* empty plain or language-tagged string and the integer 0 are false), a
\* URIRef or BNode is a non-empty str, None is false
Truthy(t) ==
    CASE t.k = "none" -> FALSE
      [] t.k = "lit" ->
            IF t.dt = Str(XSD_integer) THEN t.s # <<"0">> ELSE t.s # NoStr
      [] OTHER -> t.s # NoStr

_literal_to_text(value) ==
    IF value.lang # NoStr THEN Str(value) \o <<"@">> \o value.lang
    ELSE IF value.dt # NoStr THEN Str(value) \o <<"^", "^">> \o value.dt
    ELSE Str(value)

\* text split at position i, where a separator of length n starts
SplitAt(text, i, n) == <<Slice(text, 1, i - 1), Slice(text, i + n, Len(text))>>

\* text.rsplit(sep, 1) when sep occurs in text
RSplit1(text, sep) == SplitAt(text, SetMax(Occurrences(text, sep)), Len(sep))

TypedLiteral(parts) == Literal(parts[1], NoStr, parts[2])
TaggedLiteral(parts) == Literal(parts[1], parts[2], NoStr)

_literal_from_value(text) ==
    IF Contains(text, <<"^", "^">>)
    THEN TypedLiteral(RSplit1(text, <<"^", "^">>))
    ELSE IF Contains(text, <<"@">>) /\ ~StartsWith(text, s_http)
    THEN TaggedLiteral(RSplit1(text, <<"@">>))
    ELSE Literal(text, NoStr, NoStr)

-----------------------------------------------------------------------------
(* The graph store: a set of triples, enumerated in a store-dependent order *)

\* a canonical order on terms; the store enumerates along it or against it
TermKey(t) == t.s \o <<"@">> \o t.lang \o <<"^">> \o t.dt

KindRank(k) == CASE k = "bnode" -> 1 [] k = "lit" -> 2 [] k = "uri" -> 3 [] OTHER -> 4

RankLess(ra, rb, ka, kb) == ra < rb \/ (ra = rb /\ StrLess(ka, kb))

TermLess(a, b) == RankLess(KindRank(a.k), KindRank(b.k), TermKey(a), TermKey(b))

EnumLess(a, b) ==
    TermLess(IF enum_order = "asc" THEN a ELSE b, IF enum_order = "asc" THEN b ELSE a)

\* the terms of S in enumeration order
Enumerate(S) ==
    [i \in 1..Cardinality(S) |->
        CHOOSE x \in S : Cardinality({y \in S : EnumLess(y, x)}) = i - 1]

\* list(graph.objects(s, p))
Objects(g, s, p) == Enumerate({t[3] : t \in {u \in g : u[1] = s /\ u[2] = p}})

\* graph.subjects(p, o)
Subjects(g, p, o) == {t[1] : t \in {u \in g : u[2] = p /\ u[3] = o}}

\* graph.subjects()
AllSubjects(g) == {t[1] : t \in g}

PairLess(x, y) == EnumLess(x[1], y[1]) \/ (x[1] = y[1] /\ EnumLess(x[2], y[2]))

\* the pairs of S in enumeration order
EnumeratePairs(S) ==
    [i \in 1..Cardinality(S) |->
        CHOOSE x \in S : Cardinality({y \in S : PairLess(y, x)}) = i - 1]

\* list(graph.predicate_objects(s)): pairs <<p, o>>
PredicateObjects(g, s) == EnumeratePairs({<<t[2], t[3]>> : t \in {u \in g : u[1] = s}})

\* next(iter(q), None)
FirstOrNone(q) == IF q = <<>> THEN None ELSE q[1]

\* graph.value(s, p): the first object enumerated, or None
Value(g, s, p) == FirstOrNone(Objects(g, s, p))

\* list(graph.items(head)): walks rdf:first / rdf:rest; raises ValueError on
\* a recursive rdf:rest reference (ok = FALSE)
RECURSIVE ItemsFrom(_, _, _)

\* the item of one list cell put before the items of the rest
ItemsWith(item, r) ==
    [ok |-> r.ok, items |-> (IF item # None THEN <<item>> ELSE <<>>) \o r.items]

\* (variant) the walk ends at a recursive rdf:rest reference without an error
ItemsCellUnchecked(g, item, nxt, chain) ==
    IF nxt \in chain THEN [ok |-> TRUE, items |-> IF item # None THEN <<item>> ELSE <<>>]
    ELSE ItemsWith(item, ItemsFrom(g, nxt, chain \cup {nxt}))

\* one list cell with rdf:first item and rdf:rest nxt
ItemsCell(g, item, nxt, chain) ==
    IF nxt \in chain THEN [ok |-> FALSE, items |-> <<>>]
    ELSE ItemsWith(item, ItemsFrom(g, nxt, chain \cup {nxt}))

ItemsFrom(g, node, chain) ==
    IF ~Truthy(node) THEN [ok |-> TRUE, items |-> <<>>]
    ELSE ItemsCell(g, Value(g, node, RDF_first), Value(g, node, RDF_rest), chain)

Items(g, head) == ItemsFrom(g, head, {head})

\* Collection(graph, head, seq): the triples of an RDF list whose cells after
\* the head are the blank nodes fresh[1], fresh[2], ...
RECURSIVE CollectionTriples(_, _, _)
CollectionTriples(node, seq, fresh) ==
    IF Len(seq) <= 1
    THEN (IF seq = <<>> THEN {} ELSE {<<node, RDF_first, seq[1]>>})
            \cup {<<node, RDF_rest, RDF_nil>>}
    ELSE {<<node, RDF_first, seq[1]>>, <<node, RDF_rest, fresh[1]>>}
            \cup CollectionTriples(fresh[1], Tail(seq), Tail(fresh))

-----------------------------------------------------------------------------
(* Rows *)

COLUMNS ==
    {"id", "label", "entity_type", "dccx_alignment", "status", "replaced_by",
     "definition", "comment", "example", "source", "subclass_of",
     "equivalent_to", "disjoint_with", "on_property", "restriction_type",
     "restriction_filler", "cardinality_value", "property_domain",
     "property_range", "property_characteristic", "inverse_of",
     "annotation_predicate", "annotation_value"}

\* {col: "" for col in COLUMNS}
EmptyRow == [col \in COLUMNS |-> NoStr]

\* dict update: row with the columns of upd overwritten
Update(row, upd) == [col \in COLUMNS |-> IF col \in DOMAIN upd THEN upd[col] ELSE row[col]]

\* entity_type names as cell text
t_Class == <<"C", "l", "a", "s", "s">>
t_ObjectProperty == <<"O", "b", "j", "e", "c", "t", "P", "r", "o", "p", "e", "r", "t", "y">>
t_DataProperty == <<"D", "a", "t", "a", "P", "r", "o", "p", "e", "r", "t", "y">>
t_AnnotationProperty ==
    <<"A", "n", "n", "o", "t", "a", "t", "i", "o", "n", "P", "r", "o", "p", "e", "r", "t", "y">>
t_Individual == <<"I", "n", "d", "i", "v", "i", "d", "u", "a", "l">>

\* restriction_type names as cell text
t_some == <<"s", "o", "m", "e">>
t_only == <<"o", "n", "l", "y">>
t_min == <<"m", "i", "n">>
t_max == <<"m", "a", "x">>
t_exact == <<"e", "x", "a", "c", "t">>

s_union == <<"u", "n", "i", "o", "n", "(">>
s_oneOf == <<"o", "n", "e", "O", "f", "(">>
s_bnode == <<"_", ":">>

\* CHARACTERISTIC_TYPES: <<type, name>>
CHARACTERISTIC_TYPES ==
    { <<OWL_FunctionalProperty,
        <<"f", "u", "n", "c", "t", "i", "o", "n", "a", "l">> >>,
      <<OWL_InverseFunctionalProperty,
        <<"i", "n", "v", "e", "r", "s", "e", "F", "u", "n", "c", "t", "i", "o", "n", "a", "l">> >>,
      <<OWL_SymmetricProperty,
        <<"s", "y", "m", "m", "e", "t", "r", "i", "c">> >>,
      <<OWL_AsymmetricProperty,
        <<"a", "s", "y", "m", "m", "e", "t", "r", "i", "c">> >>,
      <<OWL_ReflexiveProperty,
        <<"r", "e", "f", "l", "e", "x", "i", "v", "e">> >>,
      <<OWL_IrreflexiveProperty,
        <<"i", "r", "r", "e", "f", "l", "e", "x", "i", "v", "e">> >>,
      <<OWL_TransitiveProperty,
        <<"t", "r", "a", "n", "s", "i", "t", "i", "v", "e">> >> }

\* position of q[i] in sorted(q)
SortRank(q, i) ==
    1 + Cardinality({j \in 1..Len(q) : StrLess(q[j], q[i]) \/ (q[j] = q[i] /\ j < i)})

\* sorted(q) for a list of strings (duplicates kept)
SortStrs(q) == [k \in 1..Len(q) |-> q[CHOOSE i \in 1..Len(q) : SortRank(q, i) = k]]

\* Optional[str]: the value None of a function that returns text
NoneText == <<"None">>

\* [f(x) for x in q]
RECURSIVE ConcatAll(_)
ConcatAll(qq) == IF qq = <<>> THEN <<>> ELSE Head(qq) \o ConcatAll(Tail(qq))

-----------------------------------------------------------------------------
(* Graph -> table *)

\* the English-tagged value if there is one, else the first; and the others
PreferredAmong(values) ==
    LET en == {i \in 1..Len(values) : values[i].lang = s_en}
        pick == IF en = {} THEN 1 ELSE CHOOSE j \in en : \A k \in en : j <= k
    IN  IF values = <<>> THEN [preferred |-> None, leftovers |-> <<>>]
        ELSE [preferred |-> values[pick],
              leftovers |-> [i \in 1..(Len(values) - 1) |->
                                IF i < pick THEN values[i] ELSE values[i + 1]]]

_preferred_literal(g, subject, predicate) ==
    PreferredAmong(SelectSeq(Objects(g, subject, predicate), IsLiteral))

\* str(item), or the literal encoding for a Literal
ItemText(item) == IF IsLiteral(item) THEN _literal_to_text(item) ELSE Str(item)

\* "|".join of the item texts, None for an empty or broken list
JoinedItems(r) ==
    IF ~r.ok \/ r.items = <<>> THEN NoneText
    ELSE Join([i \in 1..Len(r.items) |-> ItemText(r.items[i])], <<"|">>)

_serialize_list(g, node) == JoinedItems(Items(g, node))

\* truth value of an Optional[str]
TextTruthy(t) == t # NoneText /\ t # NoStr

\* _serialize_list(graph, head) if head else None
ListText(g, head) == IF Truthy(head) THEN _serialize_list(g, head) ELSE NoneText

\* oneOf(...) before union(...), None when neither list serialises
WrappedText(one_of, union) ==
    IF TextTruthy(one_of) THEN s_oneOf \o one_of \o <<")">>
    ELSE IF TextTruthy(union) THEN s_union \o union \o <<")">>
    ELSE NoneText

_serialize_class_expression(g, expr) ==
    IF IsURIRef(expr) THEN Str(expr)
    ELSE WrappedText(ListText(g, Value(g, expr, OWL_oneOf)),
                     ListText(g, Value(g, expr, OWL_unionOf)))

\* nesting depth up to which class expressions are followed
WalkDepth == 4

RECURSIVE CollectFromExpression(_, _, _)

\* the restrictions found in the items of one list
CollectItems(g, r, fuel) ==
    IF ~r.ok \/ fuel = 0 THEN <<>>
    ELSE ConcatAll([i \in 1..Len(r.items) |->
                        CollectFromExpression(g, r.items[i], fuel - 1)])

CollectFromList(g, head, fuel) == CollectItems(g, Items(g, head), fuel)

\* the restrictions found in the lists at heads
CollectLists(g, heads, fuel) ==
    ConcatAll([i \in 1..Len(heads) |-> CollectFromList(g, heads[i], fuel)])

CollectFromExpression(g, expr, fuel) ==
    (IF <<expr, RDF_type, OWL_Restriction>> \in g THEN <<expr>> ELSE <<>>)
        \o CollectLists(g, Objects(g, expr, OWL_intersectionOf), fuel)
        \o CollectLists(g, Objects(g, expr, OWL_unionOf), fuel)

_collect_from_expression(g, expr) == CollectFromExpression(g, expr, WalkDepth)

\* (variant) the property types tested before owl:Class
TypeNamePropertyFirst(types) ==
    IF OWL_ObjectProperty \in types THEN t_ObjectProperty
    ELSE IF OWL_DatatypeProperty \in types THEN t_DataProperty
    ELSE IF OWL_Class \in types THEN t_Class
    ELSE IF OWL_AnnotationProperty \in types THEN t_AnnotationProperty
    ELSE t_Individual

\* the first structural type among types, Individual when there is none
TypeName(types) ==
    IF OWL_Class \in types THEN t_Class
    ELSE IF OWL_ObjectProperty \in types THEN t_ObjectProperty
    ELSE IF OWL_DatatypeProperty \in types THEN t_DataProperty
    ELSE IF OWL_AnnotationProperty \in types THEN t_AnnotationProperty
    ELSE t_Individual

_entity_type(g, entity) ==
    TypeName({t[3] : t \in {u \in g : u[1] = entity /\ u[2] = RDF_type}})

\* (s, p, o) in graph, where o = None matches any object
TripleIn(g, s, p, o) ==
    IF o = None THEN \E t \in g : t[1] = s /\ t[2] = p ELSE <<s, p, o>> \in g

\* Python's "a or b"
Or(a, b) == IF Truthy(a) THEN a ELSE b

\* a if a is not None else b
IfNone(a, b) == IF a = None THEN b ELSE a

\* str(x) if x else ""
StrOrEmpty(x) == IF Truthy(x) THEN Str(x) ELSE NoStr

\* restriction_type and cardinality_value: some/only from the filler, then
\* overwritten by min, max and exact in that order
RestrictionKind(g, node, filler, min_card, max_card, exact_card) ==
    IF exact_card # None THEN [type |-> t_exact, card |-> exact_card]
    ELSE IF max_card # None THEN [type |-> t_max, card |-> max_card]
    ELSE IF min_card # None THEN [type |-> t_min, card |-> min_card]
    ELSE IF TripleIn(g, node, OWL_someValuesFrom, filler) THEN [type |-> t_some, card |-> None]
    ELSE IF TripleIn(g, node, OWL_allValuesFrom, filler) THEN [type |-> t_only, card |-> None]
    ELSE [type |-> NoStr, card |-> None]

\* (variant) the restriction row started empty instead of as a copy of base_row
RestrictionColumnsBare(base_row, on_property, kind, filler) ==
    Update(EmptyRow,
           [id |-> base_row.id,
            on_property |-> StrOrEmpty(on_property),
            restriction_type |-> kind.type,
            restriction_filler |-> StrOrEmpty(filler),
            cardinality_value |-> IF kind.card = None THEN NoStr ELSE ItemText(kind.card)])

\* the restriction columns filled into a copy of base_row
RestrictionColumns(base_row, on_property, kind, filler) ==
    Update(base_row,
           [on_property |-> StrOrEmpty(on_property),
            restriction_type |-> kind.type,
            restriction_filler |-> StrOrEmpty(filler),
            cardinality_value |-> IF kind.card = None THEN NoStr ELSE ItemText(kind.card)])

\* the row of a restriction node whose some/all filler is filler
RestrictionRowFor(g, node, base_row, filler) ==
    RestrictionColumns(
        base_row,
        Value(g, node, OWL_onProperty),
        RestrictionKind(g, node, filler,
                        IfNone(Value(g, node, OWL_minQualifiedCardinality),
                               Value(g, node, OWL_minCardinality)),
                        IfNone(Value(g, node, OWL_maxQualifiedCardinality),
                               Value(g, node, OWL_maxCardinality)),
                        IfNone(Value(g, node, OWL_qualifiedCardinality),
                               Value(g, node, OWL_cardinality))),
        Or(filler, Or(Value(g, node, OWL_onClass), Value(g, node, OWL_onDataRange))))

\* the row of one restriction node
RestrictionRow(g, node, base_row) ==
    RestrictionRowFor(g, node, base_row,
                      Or(Value(g, node, OWL_someValuesFrom), Value(g, node, OWL_allValuesFrom)))

\* the rows of the nodes typed owl:Restriction
RestrictionRowsOf(g, nodes, base_row) ==
    [i \in 1..Len(nodes) |-> RestrictionRow(g, nodes[i], base_row)]

_restriction_rows(g, restriction_nodes, base_row) ==
    LET IsRestriction(n) == <<n, RDF_type, OWL_Restriction>> \in g
    IN  RestrictionRowsOf(g, SelectSeq(restriction_nodes, IsRestriction), base_row)

\* an overflow row: only id, annotation_predicate and annotation_value filled
OverflowRow(entity_id, pred, value) ==
    Update(EmptyRow, [id |-> entity_id, annotation_predicate |-> Str(pred),
                      annotation_value |-> value])

\* (variant) the blank-node marker forgotten
EntityIdPlain(entity) == Str(entity)

\* the id cell of an entity
EntityId(entity) == IF IsBNode(entity) THEN s_bnode \o Str(entity) ELSE Str(entity)

\* what the descriptive pass reads of an entity, each read once
Described(g, entity) ==
    [ pl |-> _preferred_literal(g, entity, SKOS_prefLabel),
      rl |-> _preferred_literal(g, entity, RDFS_label),
      alignments |-> Objects(g, entity, SKOS_exactMatch),
      def |-> _preferred_literal(g, entity, SKOS_definition),
      com |-> _preferred_literal(g, entity, RDFS_comment),
      exa |-> _preferred_literal(g, entity, SKOS_example),
      source_objects |-> Objects(g, entity, DCTERMS_SOURCE),
      src |-> _preferred_literal(g, entity, DCTERMS_SOURCE) ]

\* a result of _preferred_literal that found something
Consumed(r) == Truthy(r.preferred) \/ r.leftovers # <<>>

\* label: skos:prefLabel first, rdfs:label as fallback
LabelOf(d) == IF Consumed(d.pl) THEN d.pl ELSE d.rl

LabelPred(d) ==
    IF Consumed(d.pl) THEN SKOS_prefLabel
    ELSE IF Consumed(d.rl) THEN RDFS_label
    ELSE None

\* the predicates the descriptive pass has consumed
ConsumedPreds(d) ==
    (IF Consumed(d.pl) THEN {SKOS_prefLabel} ELSE {})
        \cup (IF ~Consumed(d.pl) /\ Consumed(d.rl) THEN {RDFS_label} ELSE {})
        \cup (IF Truthy(FirstOrNone(d.alignments)) \/ Len(d.alignments) > 1
              THEN {SKOS_exactMatch} ELSE {})
        \cup (IF Consumed(d.def) THEN {SKOS_definition} ELSE {})
        \cup (IF Consumed(d.com) THEN {RDFS_comment} ELSE {})
        \cup (IF Consumed(d.exa) THEN {SKOS_example} ELSE {})
        \cup (IF Consumed(d.src) \/ d.source_objects # <<>> THEN {DCTERMS_SOURCE} ELSE {})

\* the cell of a preferred literal: written only if the literal is true
Field(x) == IF Truthy(x) THEN _literal_to_text(x) ELSE NoStr

\* the primary row before the structural columns are filled
BaseRow(g, entity, d) ==
    Update(EmptyRow,
           [id |-> EntityId(entity),
            entity_type |-> _entity_type(g, entity),
            label |-> Field(LabelOf(d).preferred),
            dccx_alignment |-> StrOrEmpty(FirstOrNone(d.alignments)),
            definition |-> Field(d.def.preferred),
            comment |-> Field(d.com.preferred),
            example |-> Field(d.exa.preferred),
            source |-> Field(d.src.preferred)])

\* "|".join(sorted(str(o) for o in q if isinstance(o, URIRef)))
NamesOf(q) ==
    Join(SortedStrings({Str(o) : o \in {x \in Range(q) : IsURIRef(x)}}), <<"|">>)

\* _collect_from_expression over every expression of q
CollectAll(g, q) == ConcatAll([i \in 1..Len(q) |-> _collect_from_expression(g, q[i])])

\* the class row followed by the rows of its restrictions
ClassRowsOf(g, restriction_nodes, class_row) ==
    <<class_row>> \o _restriction_rows(g, restriction_nodes, class_row)

\* Class: named parents, equivalents, disjoints; restriction rows
ClassRows(g, entity, base0, sub_all, eqv_all) ==
    ClassRowsOf(g,
                Dedup(CollectAll(g, sub_all) \o CollectAll(g, eqv_all)),
                Update(base0,
                       [subclass_of |-> NamesOf(sub_all),
                        equivalent_to |-> NamesOf(eqv_all),
                        disjoint_with |-> NamesOf(Objects(g, entity, OWL_disjointWith))]))

\* the serialised expressions of q that are not None or empty
Serialized(g, q) ==
    SelectSeq([i \in 1..Len(q) |-> _serialize_class_expression(g, q[i])], TextTruthy)

\* ObjectProperty / DataProperty: domain, range, characteristics, inverse
PropertyRow(g, entity, base0) ==
    Update(base0,
           [property_domain |->
                Join(SortStrs(Serialized(g, Objects(g, entity, RDFS_domain))), <<"|">>),
            property_range |->
                Join(SortStrs(Serialized(g, Objects(g, entity, RDFS_range))), <<"|">>),
            property_characteristic |->
                Join(SortedStrings({c[2] : c \in {d \in CHARACTERISTIC_TYPES :
                                                     <<entity, RDF_type, d[1]>> \in g}}),
                     <<"|">>),
            inverse_of |-> StrOrEmpty(Value(g, entity, OWL_inverseOf))])

\* the primary row of an entity and, for a class, its restriction rows
PrimaryRows(g, entity, base0) ==
    IF base0.entity_type = t_Class
    THEN ClassRows(g, entity, base0, Objects(g, entity, RDFS_subClassOf),
                   Objects(g, entity, OWL_equivalentClass))
    ELSE IF base0.entity_type \in {t_ObjectProperty, t_DataProperty}
    THEN <<PropertyRow(g, entity, base0)>>
    ELSE <<base0>>

\* q[1:]
Rest(q) == [i \in 1..(Len(q) - 1) |-> q[i + 1]]

NotLiteral(o) == ~IsLiteral(o)

\* one overflow row per leftover literal
Leftover(entity_id, q, pred) ==
    [i \in 1..Len(q) |-> OverflowRow(entity_id, pred, _literal_to_text(q[i]))]

\* one overflow row per resource of q
ResourceRows(entity_id, q, pred) ==
    [i \in 1..Len(q) |-> OverflowRow(entity_id, pred, ItemText(q[i]))]

\* the descriptive overflow rows, category by category
DescriptiveOverflow(entity_id, d) ==
    Leftover(entity_id, LabelOf(d).leftovers, IfNone(LabelPred(d), SKOS_prefLabel))
        \o Leftover(entity_id, d.def.leftovers, SKOS_definition)
        \o Leftover(entity_id, d.com.leftovers, RDFS_comment)
        \o Leftover(entity_id, d.exa.leftovers, SKOS_example)
        \o Leftover(entity_id, d.src.leftovers, DCTERMS_SOURCE)
        \o ResourceRows(entity_id, Rest(d.alignments), SKOS_exactMatch)
        \o ResourceRows(entity_id, SelectSeq(d.source_objects, NotLiteral),
                        DCTERMS_SOURCE)

structural_types ==
    {OWL_Class, OWL_ObjectProperty, OWL_DatatypeProperty,
     OWL_AnnotationProperty, OWL_Restriction}

\* a predicate/object pair that goes to a generic overflow row
Generic(g, entity, handled_preds, po) ==
    /\ po[1] \notin handled_preds
    /\ <<entity, RDF_type, OWL_Restriction>> \notin g
    /\ po[1] \notin {RDFS_subClassOf, OWL_equivalentClass, OWL_disjointWith,
                     RDFS_domain, RDFS_range, OWL_inverseOf}
    /\ ~(po[1] = RDF_type /\ po[2] \in structural_types)

\* serialized or str(obj)
TextOr(serialized, obj) == IF serialized # NoneText THEN serialized ELSE ItemText(obj)

\* the annotation_value of a generic row: lists are serialised
GenericValue(g, po) ==
    IF po[1] \in {OWL_unionOf, OWL_intersectionOf, OWL_members}
    THEN TextOr(_serialize_list(g, po[2]), po[2])
    ELSE ItemText(po[2])

GenericRowsOf(g, entity_id, generic) ==
    [i \in 1..Len(generic) |->
        OverflowRow(entity_id, generic[i][1], GenericValue(g, generic[i]))]

\* the rows of the predicates no column has consumed
GenericRows(g, entity, handled_preds) ==
    LET Kept(po) == Generic(g, entity, handled_preds, po)
    IN  GenericRowsOf(g, EntityId(entity), SelectSeq(PredicateObjects(g, entity), Kept))

\* the rows of an entity whose descriptive values are d
EntityRowsOf(g, entity, d) ==
    PrimaryRows(g, entity, BaseRow(g, entity, d))
        \o DescriptiveOverflow(EntityId(entity), d)
        \o GenericRows(g, entity, ConsumedPreds(d))

\* the rows of one entity: the primary row, its restriction rows, then the
\* overflow rows
EntityRows(g, entity) == EntityRowsOf(g, entity, Described(g, entity))

\* the entities of a graph: typed named subjects, AllDisjointClasses nodes,
\* every other named subject
Entities(g) ==
    {s \in Subjects(g, RDF_type, OWL_Class) : IsURIRef(s)}
        \cup {s \in Subjects(g, RDF_type, OWL_ObjectProperty) : IsURIRef(s)}
        \cup {s \in Subjects(g, RDF_type, OWL_DatatypeProperty) : IsURIRef(s)}
        \cup {s \in Subjects(g, RDF_type, OWL_AnnotationProperty) : IsURIRef(s)}
        \cup Subjects(g, RDF_type, OWL_AllDisjointClasses)
        \cup {s \in AllSubjects(g) : IsURIRef(s)}

\* key order of sorted(entities, key=lambda e: str(e)); ties keep the order
\* in which the store enumerates
EntityLess(x, y) ==
    \/ StrLess(Str(x), Str(y))
    \/ (Str(x) = Str(y) /\ EnumLess(x, y))

\* (variant) the entities taken in the order the store enumerates them
EnumeratedEntities(S) == Enumerate(S)

\* sorted(entities, key=lambda e: str(e))
SortedEntities(S) ==
    [i \in 1..Cardinality(S) |->
        CHOOSE x \in S : Cardinality({y \in S : EntityLess(y, x)}) = i - 1]

RowsOfEntities(g, ents) == ConcatAll([i \in 1..Len(ents) |-> EntityRows(g, ents[i])])

graph_to_table(g) == RowsOfEntities(g, SortedEntities(Entities(g)))

-----------------------------------------------------------------------------
(* Table -> graph *)

\* PREFERRED_PREFIXES (the prefixes the model's IRIs use): <<prefix, namespace>>
PREFERRED_PREFIXES ==
    { <<<<"s", "k", "o", "s">>, s_scheme \o <<"s", "#">> >>,
      <<<<"o", "w", "l">>, s_scheme \o <<"o", "#">> >>,
      <<<<"r", "d", "f", "s">>, s_scheme \o <<"r", "#">> >>,
      <<<<"r", "d", "f">>, s_scheme \o <<"f", "#">> >>,
      <<<<"x", "s", "d">>, s_scheme \o <<"x", "#">> >>,
      <<<<"d", "c", "t", "e", "r", "m", "s">>, s_scheme \o <<"t", "/">> >>,
      <<<<"d", "c", "c">>, s_scheme \o <<"d", "/">> >> }

VANN_preferredNamespaceUri == URIRef(s_scheme \o <<"v", "/", "p", "N">>)

FORCE_LITERAL_PREDICATES == {VANN_preferredNamespaceUri}

\* the namespace of a bound prefix joined with local; None when unbound
Bound(bound, local) ==
    IF bound = {} THEN None ELSE URIRef((CHOOSE b \in bound : TRUE)[2] \o local)

\* text of the form prefix:local, parts being text.split(":")
ExpandParts(text, parts) ==
    IF Len(parts) < 2 \/ parts[1] = NoStr THEN None
    ELSE Bound({b \in PREFERRED_PREFIXES : b[1] = parts[1]},
               Slice(text, Len(parts[1]) + 2, Len(text)))

\* graph.namespace_manager.expand_curie(text): prefix:local against the bound
\* prefixes; None when the prefix is empty or unbound
expand_curie(text) == ExpandParts(text, Split(text, ":"))

Bracketed(text) == StartsWith(text, <<"<">>) /\ EndsWith(text, <<">">>)

\* (variant) only the first character of the key names the blank node
ParseUriShortKey(text) ==
    IF text = NoStr THEN None
    ELSE IF StartsWith(text, s_bnode) THEN BNode(Slice(text, 3, 3))
    ELSE IF Contains(text, <<"@">>) \/ Contains(text, <<"^", "^">>) THEN None
    ELSE IF (\E i \in 1..Len(text) : IsSpace(text[i])) /\ ~Bracketed(text) THEN None
    ELSE IF Bracketed(text) THEN URIRef(Slice(text, 2, Len(text) - 1))
    ELSE IF Contains(text, <<":", "/", "/">>) THEN URIRef(text)
    ELSE IF Contains(text, <<":">>) THEN expand_curie(text)
    ELSE None

\* _as_uri of a stripped text
ParseUri(text) ==
    IF text = NoStr THEN None
    ELSE IF StartsWith(text, s_bnode) THEN BNode(Slice(text, 3, Len(text)))
    ELSE IF Contains(text, <<"@">>) \/ Contains(text, <<"^", "^">>) THEN None
    ELSE IF (\E i \in 1..Len(text) : IsSpace(text[i])) /\ ~Bracketed(text) THEN None
    ELSE IF Bracketed(text) THEN URIRef(Slice(text, 2, Len(text) - 1))
    ELSE IF Contains(text, <<":", "/", "/">>) THEN URIRef(text)
    ELSE IF Contains(text, <<":">>) THEN expand_curie(text)
    ELSE None

_as_uri(value) == ParseUri(Strip(value))

\* text wrapped as opener ... ")"
IsWrapped(text, opener) == StartsWith(text, opener) /\ EndsWith(text, <<")">>)

\* [part.strip() for part in parts if part.strip()]
StrippedParts(parts) ==
    LET NonEmpty(x) == x # NoStr
    IN  SelectSeq([i \in 1..Len(parts) |-> Strip(parts[i])], NonEmpty)

\* _split_multivalue of a stripped text
SplitText(text) ==
    IF text = NoStr THEN <<>>
    ELSE IF IsWrapped(text, s_union) \/ IsWrapped(text, s_oneOf) THEN <<text>>
    ELSE StrippedParts(Split(text, IF Contains(text, <<"|">>) THEN "|" ELSE ","))

_split_multivalue(cell_text) == SplitText(Strip(cell_text))

\* BNode(): the n-th blank node created during one import
FreshBNode(n) == BNode(<<"N">> \o NumStr(n))

\* uri_val or _literal_from_value(part)
OrLiteral(uri_val, part) == IF Truthy(uri_val) THEN uri_val ELSE _literal_from_value(part)

\* [_as_uri(part) or _literal_from_value(part) for part in parts]
Members(parts) == [i \in 1..Len(parts) |-> OrLiteral(_as_uri(parts[i]), parts[i])]

\* a list of members materialised at head, its further cells fresh from n + 1
ListAt(head, members, n) ==
    CollectionTriples(head, members, [i \in 1..Len(members) |-> FreshBNode(n + i)])

\* the union / oneOf node built over members
ExpandMembers(members, isUnion, datatype_context, n) ==
    IF members = <<>> THEN [node |-> None, triples |-> {}, used |-> 0]
    ELSE [node |-> FreshBNode(n + 1),
          triples |-> {<<FreshBNode(n + 1), RDF_type,
                         IF datatype_context THEN RDFS_Datatype ELSE OWL_Class>>,
                       <<FreshBNode(n + 1),
                         IF isUnion THEN OWL_unionOf ELSE OWL_oneOf,
                         FreshBNode(n + 2)>>}
                      \cup ListAt(FreshBNode(n + 2), members, n + 2),
          used |-> 1 + Len(members)]

\* _expand_class_expression of a stripped text
ExpandText(text, datatype_context, n) ==
    IF IsWrapped(text, s_union) \/ IsWrapped(text, s_oneOf)
    THEN ExpandMembers(Members(_split_multivalue(Slice(text, 7, Len(text) - 1))),
                       IsWrapped(text, s_union), datatype_context, n)
    ELSE [node |-> _as_uri(text), triples |-> {}, used |-> 0]

\* Result of _expand_class_expression: the node returned (None when nothing
\* is built), the triples added to the graph, the fresh blank nodes used.
\* n is the number of blank nodes created so far.
_expand_class_expression(value, datatype_context, n) ==
    ExpandText(Strip(value), datatype_context, n)

\* if u: graph.add((subj, pred, u))
Link(subj, pred, u) == IF Truthy(u) THEN {<<subj, pred, u>>} ELSE {}

RECURSIVE ExpandAll(_, _, _, _, _)

\* the triples of one expression e joined with those of the remaining parts
Merge(subj, pred, e, rest) ==
    [triples |-> e.triples \cup Link(subj, pred, e.node) \cup rest.triples,
     n |-> rest.n]

ExpandNext(parts, subj, pred, datatype_context, n, e) ==
    Merge(subj, pred, e,
          ExpandAll(Tail(parts), subj, pred, datatype_context, n + e.used))

\* for part in parts: expr = _expand_class_expression(part, ...);
\*                    if expr: graph.add((subj, pred, expr))
ExpandAll(parts, subj, pred, datatype_context, n) ==
    IF parts = <<>> THEN [triples |-> {}, n |-> n]
    ELSE ExpandNext(parts, subj, pred, datatype_context, n,
                    _expand_class_expression(Head(parts), datatype_context, n))

\* a row whose id resolves to key and that names an entity_type
Declares(u, entity_type, key) == Truthy(u) /\ Str(u) = key /\ entity_type # NoStr

DeclaringRows(rws, key) ==
    {i \in 1..Len(rws) : Declares(_as_uri(rws[i].id), Strip(rws[i].entity_type), key)}

LastDeclared(rws, decl) ==
    IF decl = {} THEN NoStr ELSE Strip(rws[SetMax(decl)].entity_type)

\* pass 1: str(subject) -> declared entity_type (the last non-empty one wins)
PropertyType(rws, key) == LastDeclared(rws, DeclaringRows(rws, key))

\* {subj pred uri} for every part that resolves
Links(subj, pred, cell_text) ==
    {<<subj, pred, u>> :
        u \in {v \in {_as_uri(x) : x \in Range(_split_multivalue(cell_text))} : Truthy(v)}}

LabelPredicate(entity_type) ==
    IF entity_type \in {t_Class, t_ObjectProperty, t_DataProperty, t_AnnotationProperty}
    THEN SKOS_prefLabel ELSE RDFS_label

\* if cell: graph.add((subj, pred, _literal_from_value(cell)))
Lit(subj, pred, cell_text) ==
    IF cell_text # NoStr THEN {<<subj, pred, _literal_from_value(cell_text)>>} ELSE {}

\* the descriptive triples of a row (label, alignment, definition, ...)
DescriptiveTriples(row, subj) ==
    Lit(subj, LabelPredicate(row.entity_type), row.label)
        \cup Link(subj, SKOS_exactMatch, _as_uri(row.dccx_alignment))
        \cup Lit(subj, SKOS_definition, row.definition)
        \cup Lit(subj, RDFS_comment, row.comment)
        \cup Lit(subj, SKOS_example, row.example)
        \cup Lit(subj, DCTERMS_SOURCE, row.source)

NoAnnotation == [triples |-> {}, used |-> 0, skip |-> FALSE]

\* owl:members / owl:unionOf / owl:intersectionOf: a list, then continue
ListAnnotation(subj, pred, members, n) ==
    IF members = <<>> THEN [triples |-> {}, used |-> 0, skip |-> TRUE]
    ELSE [triples |-> {<<subj, pred, FreshBNode(n + 1)>>}
                      \cup ListAt(FreshBNode(n + 1), members, n + 1),
          used |-> Len(members), skip |-> TRUE]

\* any other predicate: a resource if the value resolves, else a literal
PlainAnnotation(subj, pred, obj_uri, val) ==
    [triples |-> {<<subj, pred, OrLiteral(obj_uri, val)>>}, used |-> 0, skip |-> FALSE]

AnnotationOf(subj, pred, val, n) ==
    IF ~Truthy(pred) THEN NoAnnotation
    ELSE IF pred \in {OWL_members, OWL_unionOf, OWL_intersectionOf} /\ val # NoStr
    THEN ListAnnotation(subj, pred, Members(_split_multivalue(val)), n)
    ELSE PlainAnnotation(subj, pred,
                         IF pred \in FORCE_LITERAL_PREDICATES THEN None ELSE _as_uri(val),
                         val)

\* the annotation_predicate / annotation_value pair of a row:
\* triples added, fresh nodes used, and whether the row is abandoned (continue)
AnnotationTriples(row, subj, n) ==
    IF row.annotation_predicate = NoStr THEN NoAnnotation
    ELSE AnnotationOf(subj, _as_uri(row.annotation_predicate), row.annotation_value, n)

CardPred(restriction_type) ==
    IF restriction_type = t_min THEN OWL_minQualifiedCardinality
    ELSE IF restriction_type = t_max THEN OWL_maxQualifiedCardinality
    ELSE OWL_qualifiedCardinality

\* the triples that depend on restriction_type
RestrictionBody(restr, restriction_type, filler_value, prop_type, cardinality) ==
    IF restriction_type = t_some /\ Truthy(filler_value)
    THEN {<<restr, OWL_someValuesFrom, filler_value>>}
    ELSE IF restriction_type = t_only /\ Truthy(filler_value)
    THEN {<<restr, OWL_allValuesFrom, filler_value>>}
    ELSE IF restriction_type \in {t_min, t_max, t_exact}
    THEN {<<restr, CardPred(restriction_type), _literal_from_value(cardinality)>>}
         \cup Link(restr,
                   IF prop_type = t_DataProperty THEN OWL_onDataRange ELSE OWL_onClass,
                   filler_value)
    ELSE {}

\* property_types.get(str(on_prop), "")
PropTypeOf(rws, on_prop) ==
    IF on_prop = None THEN NoStr ELSE PropertyType(rws, Str(on_prop))

\* the triples of the restriction node restr on on_prop
RestrictionOn(row, subj, rws, restr, on_prop, attach) ==
    {<<restr, RDF_type, OWL_Restriction>>}
        \cup (IF attach THEN {<<subj, RDFS_subClassOf, restr>>} ELSE {})
        \cup Link(restr, OWL_onProperty, on_prop)
        \cup RestrictionBody(restr, Strip(row.restriction_type),
                             _as_uri(row.restriction_filler),
                             PropTypeOf(rws, on_prop), row.cardinality_value)

\* the restriction a Class row carries in its restriction columns; attach
\* tells whether the node is linked to the class by rdfs:subClassOf
RestrictionTriplesAt(row, subj, rws, n, attach) ==
    IF row.on_property = NoStr THEN [triples |-> {}, used |-> 0]
    ELSE [triples |-> RestrictionOn(row, subj, rws, FreshBNode(n + 1),
                                    _as_uri(row.on_property), attach),
          used |-> 1]

\* (variant) the restriction node is built but never attached to its class
RestrictionTriplesDetached(row, subj, rws, n) == RestrictionTriplesAt(row, subj, rws, n, FALSE)

RestrictionTriples(row, subj, rws, n) == RestrictionTriplesAt(row, subj, rws, n, TRUE)

\* entity_type == "Class"
ClassTriples(row, subj, n, restriction) ==
    [triples |-> {<<subj, RDF_type, OWL_Class>>}
                 \cup Links(subj, RDFS_subClassOf, row.subclass_of)
                 \cup Links(subj, OWL_equivalentClass, row.equivalent_to)
                 \cup Links(subj, OWL_disjointWith, row.disjoint_with)
                 \cup restriction.triples,
     n |-> n + restriction.used]

\* entity_type in {"ObjectProperty", "DataProperty"}
PropertyWith(row, subj, isData, domains, ranges) ==
    [triples |-> {<<subj, RDF_type,
                    IF isData THEN OWL_DatatypeProperty ELSE OWL_ObjectProperty>>}
                 \cup domains.triples
                 \cup ranges.triples
                 \cup {<<subj, RDF_type, c[1]>> :
                          c \in {d \in CHARACTERISTIC_TYPES :
                                    d[2] \in Range(_split_multivalue(row.property_characteristic))}}
                 \cup Link(subj, OWL_inverseOf, _as_uri(row.inverse_of)),
     n |-> ranges.n]

PropertyFrom(row, subj, isData, domains) ==
    PropertyWith(row, subj, isData, domains,
                 ExpandAll(_split_multivalue(row.property_range), subj, RDFS_range,
                           isData, domains.n))

PropertyTriples(row, subj, isData, n) ==
    PropertyFrom(row, subj, isData,
                 ExpandAll(_split_multivalue(row.property_domain), subj, RDFS_domain,
                           isData, n))

\* the type and structural triples of a row
StructuralTriples(row, subj, rws, n) ==
    IF row.entity_type = t_Class
    THEN ClassTriples(row, subj, n, RestrictionTriples(row, subj, rws, n))
    ELSE IF row.entity_type \in {t_ObjectProperty, t_DataProperty}
    THEN PropertyTriples(row, subj, row.entity_type = t_DataProperty, n)
    ELSE IF row.entity_type = t_AnnotationProperty
    THEN [triples |-> {<<subj, RDF_type, OWL_AnnotationProperty>>}, n |-> n]
    ELSE [triples |-> {}, n |-> n]

RowJoin(triples, struct) == [triples |-> triples \cup struct.triples, n |-> struct.n]

\* the row after its annotation pair: abandoned, or continued structurally
RowAfter(row, subj, rws, n, ann) ==
    IF ann.skip
    THEN [triples |-> DescriptiveTriples(row, subj) \cup ann.triples, n |-> n + ann.used]
    ELSE RowJoin(DescriptiveTriples(row, subj) \cup ann.triples,
                 StructuralTriples(row, subj, rws, n + ann.used))

\* (variant) the row is imported without the test of its subject
RowOfAnySubject(row, subj, rws, n) ==
    RowAfter(row, subj, rws, n, AnnotationTriples(row, subj, n))

RowOf(row, subj, rws, n) ==
    IF subj = None THEN [triples |-> {}, n |-> n]
    ELSE RowAfter(row, subj, rws, n, AnnotationTriples(row, subj, n))

\* pass 2, one row: the triples it adds and the blank-node count afterwards
RowTriples(row, rws, n) == RowOf(row, _as_uri(row.id), rws, n)

RECURSIVE ImportRows(_, _, _, _)

ImportNext(rws, i, g, r) == ImportRows(rws, i + 1, g \cup r.triples, r.n)

ImportRows(rws, i, g, n) ==
    IF i > Len(rws) THEN g
    ELSE ImportNext(rws, i, g, RowTriples(rws[i], rws, n))

table_to_graph(rws) == ImportRows(rws, 1, {}, 0)

-----------------------------------------------------------------------------
(* Idle values of the variables a specification does not use *)

NoRows == <<>>
NoGraph == {}
NoReport == [none |-> TRUE]

\* no command line is modelled
IdleCli == args = {} /\ io = <<>>
IdleDsi == instances_graph = {} /\ child = <<>> /\ response = <<>>
IdleLiteral == lit = None /\ cell = NoStr /\ relit = None
IdleTable ==
    /\ graph = NoGraph
    /\ enum_order = "asc"
    /\ rows = NoRows
    /\ regraph = NoGraph
    /\ identical = "unknown"
IdleReport ==
    /\ schema_terms = {}
    /\ areport = NoReport
    /\ lreport = NoReport
    /\ printed = NoReport
    /\ prefixes = {}

litVars == <<lit, cell, relit>>
tableVars == <<graph, enum_order, rows, regraph, identical>>
reportVars == <<schema_terms, areport, lreport, printed, prefixes>>
cliVars == <<args, io>>
dsiVars == <<instances_graph, child, response>>

-----------------------------------------------------------------------------
(* The literal codec on its own: encode a literal into a cell, reparse it *)

RECURSIVE SeqsUpTo(_, _)
SeqsUpTo(A, n) ==
    IF n = 0 THEN {<<>>}
    ELSE LET shorter == SeqsUpTo(A, n - 1)
         IN  shorter \cup {Append(q, c) : q \in shorter, c \in A}

LexicalChars == {"a", "@", "^"}

LexicalValues ==
    LET body == SeqsUpTo(LexicalChars, MaxLen)
    IN  body \cup {s_http \o b : b \in body}

LiteralInputs ==
    {Literal(v, NoStr, NoStr) : v \in LexicalValues}
        \cup {Literal(v, l, NoStr) : v \in LexicalValues, l \in {s_en, s_de}}
        \cup {Literal(v, NoStr, Str(XSD_integer)) : v \in LexicalValues}

InitLit ==
    /\ mode = "codec"
    /\ pc = "literal"
    /\ lit \in LiteralInputs
    /\ cell = NoStr
    /\ relit = None
    /\ IdleTable
    /\ IdleReport
    /\ IdleCli
    /\ IdleDsi

LiteralToText ==
    /\ pc = "literal"
    /\ cell' = _literal_to_text(lit)
    /\ pc' = "cell"
    /\ UNCHANGED <<mode, lit, relit, tableVars, reportVars, cliVars, dsiVars>>

LiteralFromValue ==
    /\ pc = "cell"
    /\ relit' = _literal_from_value(cell)
    /\ pc' = "reparsed"
    /\ UNCHANGED <<mode, lit, cell, tableVars, reportVars, cliVars, dsiVars>>

NextLit == LiteralToText \/ LiteralFromValue

SpecLit == InitLit /\ [][NextLit]_vars

\* C2: every literal is rendered as value@lang / value^^datatype when it has a
\* tag or datatype, and reparsing the cell text gives back the same literal
\* (lexical value, language tag and datatype), whatever its characters.
C2_LiteralRoundTrip ==
    pc = "reparsed" =>
        /\ lit.lang # NoStr => cell = lit.s \o <<"@">> \o lit.lang
        /\ lit.dt # NoStr => cell = lit.s \o <<"^", "^">> \o lit.dt
        /\ relit = lit

-----------------------------------------------------------------------------
(* Graph isomorphism (rdflib.compare): equality up to blank-node relabelling *)

BNodesOf(g) == {t[1] : t \in {u \in g : IsBNode(u[1])}} \cup {t[3] : t \in {u \in g : IsBNode(u[3])}}

\* what a blank node looks like without naming any blank node
LocalSig(g, b) ==
    << {<<t[2], t[3]>> : t \in {u \in g : u[1] = b /\ ~IsBNode(u[3])}},
       {t[2] : t \in {u \in g : u[1] = b /\ IsBNode(u[3])}},
       {<<t[1], t[2]>> : t \in {u \in g : u[3] = b /\ ~IsBNode(u[1])}},
       {t[2] : t \in {u \in g : u[3] = b /\ IsBNode(u[1])}} >>

Relabel(g, m) ==
    LET R(t) == IF IsBNode(t) THEN m[t] ELSE t
    IN  {<<R(t[1]), t[2], R(t[3])>> : t \in g}

RECURSIVE IsoFrom(_, _, _, _, _)
IsoFrom(g1, g2, todo, avail, m) ==
    IF todo = {} THEN Relabel(g1, m) = g2
    ELSE LET b == CHOOSE x \in todo : TRUE
         IN  \E c \in {x \in avail : LocalSig(g2, x) = LocalSig(g1, b)} :
                 IsoFrom(g1, g2, todo \ {b}, avail \ {c}, [x \in DOMAIN m \cup {b} |->
                                                            IF x = b THEN c ELSE m[x]])

Isomorphic(g1, g2) ==
    /\ Cardinality(g1) = Cardinality(g2)
    /\ Cardinality(BNodesOf(g1)) = Cardinality(BNodesOf(g2))
    /\ IsoFrom(g1, g2, BNodesOf(g1), BNodesOf(g2), [x \in {} |-> None])

-----------------------------------------------------------------------------
(* Input ontologies: assembled from fragments over a small vocabulary *)

Ent(n) == URIRef(s_scheme \o <<"d", "/">> \o n)

A == Ent(<<"A">>)
B == Ent(<<"B">>)
P == Ent(<<"p">>)
Q == Ent(<<"q">>)
I == Ent(<<"i">>)
T1 == Ent(<<"T", "1">>)
T2 == Ent(<<"T", "2">>)
S1 == Ent(<<"S">>)

r1 == BNode(<<"r", "1">>)
r2 == BNode(<<"r", "2">>)
u1 == BNode(<<"u", "1">>)
l1 == BNode(<<"l", "1">>)
l2 == BNode(<<"l", "2">>)
d1 == BNode(<<"d", "1">>)
l3 == BNode(<<"l", "3">>)
l4 == BNode(<<"l", "4">>)

Pump == Literal(<<"P", "u">>, s_en, NoStr)
Pumpe == Literal(<<"P", "e">>, s_de, NoStr)
Pompe == Literal(<<"P", "o">>, s_fr, NoStr)
One == Literal(<<"1">>, NoStr, Str(XSD_integer))

Fragments ==
    << {<<A, RDF_type, OWL_Class>>},
       {<<A, SKOS_prefLabel, Pump>>},
       {<<A, SKOS_prefLabel, Pumpe>>},
       {<<A, SKOS_prefLabel, Pompe>>},
       {<<A, SKOS_definition, Literal(NoStr, s_en, NoStr)>>},
       {<<A, SKOS_definition, Literal(<<"d">>, NoStr, NoStr)>>},
       {<<A, RDFS_comment, Literal(<<"c">>, s_de, NoStr)>>},
       {<<A, SKOS_example, One>>},
       {<<A, DCTERMS_SOURCE, Literal(<<"s">>, NoStr, NoStr)>>},
       {<<A, DCTERMS_SOURCE, S1>>},
       {<<A, SKOS_exactMatch, T1>>},
       {<<A, SKOS_exactMatch, T2>>},
       {<<A, RDFS_subClassOf, B>>},
       {<<A, RDFS_subClassOf, r1>>, <<r1, RDF_type, OWL_Restriction>>,
        <<r1, OWL_onProperty, P>>, <<r1, OWL_someValuesFrom, B>>},
       {<<A, RDFS_subClassOf, r2>>, <<r2, RDF_type, OWL_Restriction>>,
        <<r2, OWL_onProperty, P>>, <<r2, OWL_minCardinality, One>>},
       {<<P, RDF_type, OWL_ObjectProperty>>},
       {<<P, RDF_type, OWL_DatatypeProperty>>},
       {<<P, RDF_type, OWL_FunctionalProperty>>},
       {<<P, OWL_inverseOf, Q>>},
       {<<P, RDFS_domain, A>>},
       {<<P, RDFS_domain, u1>>, <<u1, RDF_type, OWL_Class>>, <<u1, OWL_unionOf, l1>>,
        <<l1, RDF_first, A>>, <<l1, RDF_rest, l2>>,
        <<l2, RDF_first, B>>, <<l2, RDF_rest, RDF_nil>>},
       {<<I, RDF_type, A>>},
       {<<I, RDFS_label, Literal(<<"i">>, s_en, NoStr)>>},
       {<<d1, RDF_type, OWL_AllDisjointClasses>>, <<d1, OWL_members, l3>>,
        <<l3, RDF_first, A>>, <<l3, RDF_rest, l4>>,
        <<l4, RDF_first, B>>, <<l4, RDF_rest, RDF_nil>>} >>

\* the subsets of S with at most k elements
RECURSIVE ChoicesUpTo(_, _)
ChoicesUpTo(S, k) ==
    IF k = 0 THEN {{}}
    ELSE LET smaller == ChoicesUpTo(S, k - 1)
         IN  smaller \cup {c \cup {x} : c \in smaller, x \in S}

FragmentChoices == ChoicesUpTo(1..Len(Fragments), MaxFragments)

GraphOf(c) == UNION {Fragments[i] : i \in c}

-----------------------------------------------------------------------------
(* Input tables of the import mode: rows as a CSV file may hold them *)

UnionAB == s_union \o Str(A) \o <<"|">> \o Str(B) \o <<")">>

RowPool ==
    { Update(EmptyRow, [id |-> Str(P), entity_type |-> t_ObjectProperty,
                        property_domain |-> UnionAB]),
      Update(EmptyRow, [id |-> Str(P), entity_type |-> t_DataProperty,
                        property_range |-> UnionAB]),
      Update(EmptyRow, [id |-> Str(Q), entity_type |-> t_ObjectProperty,
                        property_domain |-> Str(A), property_range |-> UnionAB]),
      Update(EmptyRow, [id |-> Str(A), entity_type |-> t_Class,
                        label |-> _literal_to_text(Pump)]),
      Update(EmptyRow, [id |-> Str(A), entity_type |-> t_Class, on_property |-> Str(P),
                        restriction_type |-> t_some, restriction_filler |-> Str(B)]),
      Update(EmptyRow, [id |-> Str(A), annotation_predicate |-> Str(SKOS_prefLabel),
                        annotation_value |-> _literal_to_text(Pumpe)]),
      Update(EmptyRow, [id |-> Str(P), entity_type |-> t_ObjectProperty,
                        property_domain |-> UnionAB,
                        annotation_predicate |-> Str(OWL_members),
                        annotation_value |-> Str(A) \o <<"|">> \o Str(B)]) }

\* most rows of an input table
MaxRows == 2

TableChoices == UNION {[1..n -> RowPool] : n \in 0..MaxRows}

-----------------------------------------------------------------------------
(* The run: roundtrip (parse, export, rebuild, diff) and import *)

Init ==
    /\ \/ /\ mode = "roundtrip"
          /\ pc = "ttl"
          /\ graph \in {GraphOf(c) : c \in FragmentChoices}
          /\ enum_order \in {"asc", "desc"}
          /\ rows = NoRows
       \/ /\ mode = "import"
          /\ pc = "csv"
          /\ graph = NoGraph
          /\ enum_order = "asc"
          /\ rows \in TableChoices
    /\ regraph = NoGraph
    /\ identical = "unknown"
    /\ IdleLiteral
    /\ IdleReport
    /\ IdleCli
    /\ IdleDsi

\* rows = graph_to_table(original)
GraphToTable ==
    /\ pc = "ttl"
    /\ rows' = graph_to_table(graph)
    /\ pc' = "rows"
    /\ UNCHANGED <<mode, graph, enum_order, regraph, identical, litVars, reportVars, cliVars, dsiVars>>

\* reconstructed = table_to_graph(rows)
TableToGraph ==
    /\ pc \in {"rows", "csv"}
    /\ regraph' = table_to_graph(rows)
    /\ pc' = "rebuilt"
    /\ UNCHANGED <<mode, graph, enum_order, rows, identical, litVars, reportVars, cliVars, dsiVars>>

\* graph_diff(to_isomorphic(original), to_isomorphic(reconstructed))
GraphDiff ==
    /\ pc = "rebuilt"
    /\ mode = "roundtrip"
    /\ identical' = Isomorphic(graph, regraph)
    /\ pc' = "done"
    /\ UNCHANGED <<mode, graph, enum_order, rows, regraph, litVars, reportVars, cliVars, dsiVars>>

Next == GraphToTable \/ TableToGraph \/ GraphDiff

Spec == Init /\ [][Next]_vars

-----------------------------------------------------------------------------
(* Properties of the round trip *)

StructuralTypes == {OWL_Class, OWL_ObjectProperty, OWL_DatatypeProperty, OWL_AnnotationProperty}

TypesOf(g, s) == {t[3] : t \in {u \in g : u[1] = s /\ u[2] = RDF_type}}

\* graphs built from the constructs the table schema supports: every named
\* subject is typed, class axioms sit on classes, property axioms on
\* properties, and no entity carries two structural types
Supported(g) ==
    \A t \in g :
        /\ IsURIRef(t[1]) => TypesOf(g, t[1]) # {}
        /\ IsURIRef(t[1]) => Cardinality(TypesOf(g, t[1]) \cap StructuralTypes) <= 1
        /\ t[2] \in {RDFS_subClassOf, OWL_equivalentClass, OWL_disjointWith}
              => OWL_Class \in TypesOf(g, t[1])
        /\ t[2] \in {RDFS_domain, RDFS_range, OWL_inverseOf}
              => TypesOf(g, t[1]) \cap {OWL_ObjectProperty, OWL_DatatypeProperty} # {}

\* C1: for every graph built only from supported constructs the rebuilt graph
\* table_to_graph(graph_to_table(G)) is isomorphic to G.
C1_RoundTripIsomorphic ==
    (mode = "roundtrip" /\ pc = "done" /\ Supported(graph)) => identical = TRUE

NamedSubjects(g) == {s \in AllSubjects(g) : IsURIRef(s)}

\* descriptive predicates and the primary-row column each is written to
DescriptiveFields ==
    { <<SKOS_prefLabel, "label">>, <<SKOS_definition, "definition">>,
      <<RDFS_comment, "comment">>, <<SKOS_example, "example">>,
      <<DCTERMS_SOURCE, "source">> }

LiteralsOn(g, e, p) == {t[3] : t \in {u \in g : u[1] = e /\ u[2] = p /\ IsLiteral(u[3])}}

\* positions of the rows of an entity; its primary row is the first of them
RowsOf(e) == {i \in 1..Len(rows) : rows[i].id = EntityId(e)}

\* positions of the overflow rows of e that carry a literal of predicate p
LiteralOverflow(e, p) ==
    {i \in RowsOf(e) :
        /\ rows[i].entity_type = NoStr
        /\ rows[i].annotation_predicate = Str(p)
        /\ rows[i].annotation_value \in {_literal_to_text(l) : l \in LiteralsOn(graph, e, p)}}

\* C3: with n >= 1 literals on one descriptive predicate, the primary row's
\* field holds an English-tagged value when there is one (else the first
\* value enumerated) and exactly n-1 overflow rows carry the other literals.
C3_PreferredLiteral ==
    (mode = "roundtrip" /\ pc = "rows") =>
        \A e \in NamedSubjects(graph) : \A df \in DescriptiveFields :
            LET L == LiteralsOn(graph, e, df[1])
                first == SelectSeq(Objects(graph, e, df[1]), IsLiteral)[1]
                primary == rows[SetMin(RowsOf(e))]
            IN  L # {} =>
                  \E x \in L :
                     /\ primary[df[2]] = _literal_to_text(x)
                     /\ (\E y \in L : y.lang = s_en) => x.lang = s_en
                     /\ (\A y \in L : y.lang # s_en) => x = first
                     /\ Cardinality(LiteralOverflow(e, df[1])) = Cardinality(L) - 1
                     /\ {rows[i].annotation_value : i \in LiteralOverflow(e, df[1])}
                           = {_literal_to_text(l) : l \in L \ {x}}

\* the existential restrictions of the source graph: <<class, node, P, F>>
SomeRestrictions(g) ==
    {q \in {<<t[1], t[3], Value(g, t[3], OWL_onProperty), Value(g, t[3], OWL_someValuesFrom)>> :
                t \in {u \in g : u[2] = RDFS_subClassOf /\ IsBNode(u[3])}} :
        /\ IsURIRef(q[1]) /\ OWL_Class \in TypesOf(g, q[1])
        /\ IsURIRef(q[3]) /\ IsURIRef(q[4])
        /\ {u \in g : u[1] = q[2]} = {<<q[2], RDF_type, OWL_Restriction>>,
                                      <<q[2], OWL_onProperty, q[3]>>,
                                      <<q[2], OWL_someValuesFrom, q[4]>>}}

\* C4: a class with subClassOf [Restriction; onProperty P; someValuesFrom F]
\* gets exactly one restriction row (P, some, F), and the rebuilt graph holds
\* a restriction blank node of the same shape attached to the class.
C4_RestrictionRoundTrip ==
    (mode = "roundtrip" /\ pc \in {"rebuilt", "done"}) =>
        \A q \in SomeRestrictions(graph) :
            /\ Cardinality({i \in 1..Len(rows) :
                               /\ rows[i].id = Str(q[1])
                               /\ rows[i].on_property = Str(q[3])
                               /\ rows[i].restriction_type = t_some
                               /\ rows[i].restriction_filler = Str(q[4])
                               /\ rows[i].cardinality_value = NoStr})
                 = Cardinality({x \in SomeRestrictions(graph) :
                                   x[1] = q[1] /\ x[3] = q[3] /\ x[4] = q[4]})
            /\ \E b \in BNodesOf(regraph) :
                  /\ {u \in regraph : u[1] = b} = {<<b, RDF_type, OWL_Restriction>>,
                                                   <<b, OWL_onProperty, q[3]>>,
                                                   <<b, OWL_someValuesFrom, q[4]>>}
                  /\ {u \in regraph : u[3] = b} = {<<q[1], RDFS_subClassOf, b>>}

C4_Witness ==
    /\ mode = "roundtrip" /\ pc = "done"
    /\ SomeRestrictions(graph) # {}
    /\ \E i \in 1..Len(rows) : rows[i].restriction_type = t_some

\* the blank nodes of g that are a union of exactly X then Y
UnionNodes(g, X, Y) ==
    {b \in BNodesOf(g) :
        \E h \in BNodesOf(g), h2 \in BNodesOf(g) :
            /\ {u \in g : u[1] = b /\ u[2] = OWL_unionOf} = {<<b, OWL_unionOf, h>>}
            /\ {u \in g : u[1] = h} = {<<h, RDF_first, X>>, <<h, RDF_rest, h2>>}
            /\ {u \in g : u[1] = h2} = {<<h2, RDF_first, Y>>, <<h2, RDF_rest, RDF_nil>>}}

\* C5: a property_domain / property_range cell union(A|B) on an
\* ObjectProperty or DataProperty row is rebuilt as a blank node whose
\* owl:unionOf list is exactly A then B, the object of rdfs:domain / range.
C5_UnionCell ==
    pc \in {"rebuilt", "done"} =>
        \A i \in 1..Len(rows) :
            LET row == rows[i]
                subj == _as_uri(row.id)
                Rebuilt(pred) == \E b \in UnionNodes(regraph, A, B) : <<subj, pred, b>> \in regraph
            IN  (subj # None /\ row.entity_type \in {t_ObjectProperty, t_DataProperty}) =>
                   /\ row.property_domain = UnionAB => Rebuilt(RDFS_domain)
                   /\ row.property_range = UnionAB => Rebuilt(RDFS_range)

\* C10: every row has a non-empty id, the IRI of a named subject of the graph
\* or "_:" followed by the id of one of its blank nodes.
C10_RowIds ==
    (mode = "roundtrip" /\ pc \in {"rows", "rebuilt", "done"}) =>
        \A i \in 1..Len(rows) :
            /\ rows[i].id # NoStr
            /\ \/ \E e \in AllSubjects(graph) : IsURIRef(e) /\ rows[i].id = Str(e)
               \/ \E e \in AllSubjects(graph) : IsBNode(e) /\ rows[i].id = s_bnode \o Str(e)

C10_Witness ==
    /\ mode = "roundtrip" /\ pc = "rows"
    /\ \E i \in 1..Len(rows) : rows[i].id = Str(A)
    /\ \E i \in 1..Len(rows) : rows[i].id = s_bnode \o Str(d1)

-----------------------------------------------------------------------------
(* The validate mode: alignment report and label-language report *)

\* the limit _alignment_report and _label_language_report default to
sample_limit == 10

s_Unknown == <<"U", "n", "k", "n", "o", "w", "n">>

_entity_category(g, subj) ==
    IF <<subj, RDF_type, OWL_Class>> \in g THEN t_Class
    ELSE IF <<subj, RDF_type, OWL_ObjectProperty>> \in g THEN t_ObjectProperty
    ELSE IF <<subj, RDF_type, OWL_DatatypeProperty>> \in g THEN t_DataProperty
    ELSE IF <<subj, RDF_type, OWL_AnnotationProperty>> \in g THEN t_AnnotationProperty
    ELSE s_Unknown

\* split_uri of an IRI that ends in a name: <<namespace, name>>, cut after the
\* last "/" or "#"
split_uri(s) ==
    LET cut == SetMax({i \in 1..Len(s) : s[i] \in {"/", "#"}})
    IN  <<Slice(s, 1, cut), Slice(s, cut + 1, Len(s))>>

\* namespace_manager.normalizeUri: prefix:name when the namespace of the IRI
\* is bound to a prefix, else the IRI (or blank node id) in angle brackets
_as_display(value, pfx) ==
    LET bound == IF IsURIRef(value)
                 THEN {b \in pfx : b[2] = split_uri(Str(value))[1]}
                 ELSE {}
    IN  IF bound = {}
        THEN <<"<">> \o Str(value) \o <<">">>
        ELSE (CHOOSE b \in bound : TRUE)[1] \o <<":">> \o split_uri(Str(value))[2]

_sample_list(items, limit) ==
    IF Len(items) <= limit THEN items ELSE SubSeq(items, 1, limit)

\* the (subj, obj) pairs of the skos:exactMatch triples with a URIRef object
alignments(g) ==
    {<<t[1], t[3]>> : t \in {u \in g : u[2] = SKOS_exactMatch /\ IsURIRef(u[3])}}

\* a dict of counts: entity category -> number of the given alignments
CountPerType(g, links) ==
    [c \in {_entity_category(g, a[1]) : a \in links} |->
        Cardinality({a \in links : _entity_category(g, a[1]) = c})]

_alignment_report(g, terms, limit) ==
    LET target_values == {Str(a[2]) : a \in alignments(g)}
        matched == target_values \cap terms
        missing == target_values \ terms
        schema_without_alignment == IF terms # {} THEN terms \ target_values ELSE {}
    IN  [ total_alignments |-> Cardinality(alignments(g)),
          alignments_in_schema |-> Cardinality(matched),
          alignments_missing_schema |-> Cardinality(missing),
          schema_without_alignment |-> Cardinality(schema_without_alignment),
          per_type |-> CountPerType(g, alignments(g)),
          per_type_in_schema |->
              CountPerType(g, {a \in alignments(g) : Str(a[2]) \in terms}),
          missing_examples |-> _sample_list(SortedStrings(missing), limit),
          schema_without_examples |->
              _sample_list(SortedStrings(schema_without_alignment), limit) ]

\* subjects of a skos:prefLabel or rdfs:label triple
seen_subjects(g) == {t[1] : t \in {u \in g : u[2] \in {SKOS_prefLabel, RDFS_label}}}

\* the literal objects of skos:prefLabel and rdfs:label on subj
prefs(g, subj) ==
    {t[3] : t \in {u \in g : /\ u[1] = subj
                             /\ u[2] \in {SKOS_prefLabel, RDFS_label}
                             /\ IsLiteral(u[3])}}

\* the subjects the loop goes on with: those having a literal label
Labelled(g) == {subj \in seen_subjects(g) : prefs(g, subj) # {}}

english_pref_missing_any(g) ==
    {subj \in Labelled(g) : \E l \in prefs(g, subj) : l.lang # s_en}

english_pref_missing(g) ==
    {subj \in Labelled(g) : \A l \in prefs(g, subj) : l.lang # s_en}

german_pref(g) ==
    {subj \in Labelled(g) : \E l \in prefs(g, subj) : l.lang = s_de}

german_pref_without_alt_any(g) ==
    {subj \in german_pref(g) :
        \A t \in g : ~(t[1] = subj /\ t[2] = SKOS_altLabel /\ IsLiteral(t[3]))}

german_pref_without_alt(g) ==
    {subj \in german_pref(g) :
        \A t \in g : ~(/\ t[1] = subj /\ t[2] = SKOS_altLabel
                       /\ IsLiteral(t[3]) /\ t[3].lang = s_de)}

other_non_english_pref(g) ==
    {subj \in Labelled(g) : \E l \in prefs(g, subj) : l.lang \notin {NoStr, s_en, s_de}}

\* sorted(set(displays)) cut to the limit
Sample(subjects, pfx, limit) ==
    _sample_list(SortedStrings({_as_display(subj, pfx) : subj \in subjects}), limit)

_label_language_report(g, pfx, limit) ==
    [ total_with_labels |-> Cardinality(seen_subjects(g)),
      english_pref_missing |-> Sample(english_pref_missing(g), pfx, limit),
      german_pref |-> Sample(german_pref(g), pfx, limit),
      german_pref_without_alt |-> Sample(german_pref_without_alt(g), pfx, limit),
      other_non_english_pref |-> Sample(other_non_english_pref(g), pfx, limit) ]

\* the four counts main prints: the lengths of the report's lists
PrintedCounts(report) ==
    [ english_pref_missing |-> Len(report.english_pref_missing),
      german_pref |-> Len(report.german_pref),
      german_pref_without_alt |-> Len(report.german_pref_without_alt),
      other_non_english_pref |-> Len(report.other_non_english_pref) ]

-----------------------------------------------------------------------------
(* Audited ontologies *)

T3 == Ent(<<"T", "3">>)
Fill(n) == Ent(<<"f">> \o NumStr(n))

Xe == Literal(<<"x">>, s_en, NoStr)
Xd == Literal(<<"x">>, s_de, NoStr)
Xf == Literal(<<"x">>, s_fr, NoStr)
Xp == Literal(<<"x">>, NoStr, NoStr)

LinkPool ==
    { <<A, SKOS_exactMatch, T1>>, <<A, SKOS_exactMatch, T2>>,
      <<P, SKOS_exactMatch, T1>>, <<P, SKOS_exactMatch, T2>>,
      <<A, SKOS_exactMatch, Xp>> }

TypePool ==
    { {}, {<<A, RDF_type, OWL_Class>>, <<P, RDF_type, OWL_ObjectProperty>>},
      {<<P, RDF_type, OWL_DatatypeProperty>>, <<A, RDF_type, OWL_AnnotationProperty>>} }

LabelPool ==
    { <<B, SKOS_prefLabel, Xe>>, <<B, SKOS_prefLabel, Xd>>, <<B, SKOS_prefLabel, Xf>>,
      <<B, RDFS_label, Xd>>, <<B, RDFS_label, Xp>>, <<B, RDFS_label, T1>>,
      <<B, SKOS_altLabel, Xd>>, <<B, SKOS_altLabel, Xe>> }

\* n entities whose only label is a German skos:prefLabel
Fillers(n) == {<<Fill(k), SKOS_prefLabel, Xd>> : k \in 0..(n - 1)}

AlignmentGraphs ==
    {links \cup types : links \in ChoicesUpTo(LinkPool, MaxLinks),
                        types \in TypePool}

LabelGraphs ==
    {labels \cup Fillers(n) :
        labels \in ChoicesUpTo(LabelPool, MaxLabels),
        n \in 0..MaxFill}

SchemaPool == {Str(T1), Str(T3)}

PrefixPool == { {}, {<<<<"d">>, s_scheme \o <<"d", "/">>>>} }

InitAudit ==
    /\ mode = "validate"
    /\ pc = "loaded"
    /\ graph \in AlignmentGraphs \cup LabelGraphs
    /\ schema_terms \in SUBSET SchemaPool
    /\ prefixes \in PrefixPool
    /\ enum_order = "asc"
    /\ rows = NoRows
    /\ regraph = NoGraph
    /\ identical = "unknown"
    /\ areport = NoReport
    /\ lreport = NoReport
    /\ printed = NoReport
    /\ IdleLiteral
    /\ IdleCli
    /\ IdleDsi

\* main, validate mode: the alignment report when schema terms were loaded
ValidateAlignment ==
    /\ pc = "loaded"
    /\ areport' = IF schema_terms # {}
                  THEN _alignment_report(graph, schema_terms, sample_limit)
                  ELSE NoReport
    /\ pc' = "aligned"
    /\ UNCHANGED <<mode, schema_terms, lreport, printed, prefixes, litVars, tableVars, cliVars, dsiVars>>

\* main, validate mode: the label report and the counts printed from it
ValidateLabels ==
    /\ pc = "aligned"
    /\ lreport' = _label_language_report(graph, prefixes, sample_limit)
    /\ printed' = PrintedCounts(lreport')
    /\ pc' = "reported"
    /\ UNCHANGED <<mode, schema_terms, areport, prefixes, litVars, tableVars, cliVars, dsiVars>>

NextAudit == ValidateAlignment \/ ValidateLabels

SpecAudit == InitAudit /\ [][NextAudit]_vars

-----------------------------------------------------------------------------
(* Properties of the reports *)

RECURSIVE SumValues(_)
SumValues(f) ==
    IF DOMAIN f = {} THEN 0
    ELSE LET k == CHOOSE x \in DOMAIN f : TRUE
         IN  f[k] + SumValues([x \in DOMAIN f \ {k} |-> f[x]])

\* the skos:exactMatch triples with a URI target
UriLinks(g) == {t \in g : t[2] = SKOS_exactMatch /\ t[3].k = "uri"}

\* C6: alignments_in_schema is the number of exactMatch links with a URI
\* target in the schema-term set, alignments_missing_schema the number of
\* links with a URI target outside it; so the two add up to total_alignments
\* and alignments_in_schema is the sum of per_type_in_schema.
C6_AlignmentArithmetic ==
    (mode = "validate" /\ areport # NoReport) =>
        /\ areport.alignments_in_schema
              = Cardinality({t \in UriLinks(graph) : t[3].s \in schema_terms})
        /\ areport.alignments_missing_schema
              = Cardinality({t \in UriLinks(graph) : t[3].s \notin schema_terms})
        /\ areport.alignments_in_schema + areport.alignments_missing_schema
              = areport.total_alignments
        /\ areport.alignments_in_schema = SumValues(areport.per_type_in_schema)

\* the literal labels of e under skos:prefLabel / rdfs:label
PreferredLabels(e) ==
    {t[3] : t \in {u \in graph : /\ u[1] = e
                                 /\ u[2] \in {SKOS_prefLabel, RDFS_label}
                                 /\ u[3].k = "lit"}}

HasGermanAlt(e) ==
    \E t \in graph : t[1] = e /\ t[2] = SKOS_altLabel /\ t[3].k = "lit" /\ t[3].lang = s_de

\* entities all of whose preferred labels are tagged de, without altLabel@de
GermanOnly ==
    {e \in AllSubjects(graph) :
        /\ PreferredLabels(e) # {}
        /\ \A l \in PreferredLabels(e) : l.lang = s_de
        /\ ~HasGermanAlt(e)}

Shown(e) == _as_display(e, prefixes)

\* d is in the list, or the list is full with identifiers sorting before d
ListedOrCut(d, list) ==
    \/ d \in Range(list)
    \/ /\ Len(list) = sample_limit
       /\ \A i \in 1..Len(list) : StrLess(list[i], d)

\* C7 (as stated): every entity whose preferred labels are all German-tagged
\* and which has no German-tagged altLabel appears in german_pref and in
\* german_pref_without_alt.
C7_GermanOnlyListed ==
    pc = "reported" =>
        \A e \in GermanOnly :
            /\ Shown(e) \in Range(lreport.german_pref)
            /\ Shown(e) \in Range(lreport.german_pref_without_alt)

\* C7 (amended): every such entity appears in german_pref and in
\* german_pref_without_alt, unless the list already holds sample_limit
\* identifiers that sort before the entity's.
C7_GermanOnlyListedOrCut ==
    pc = "reported" =>
        \A e \in GermanOnly :
            /\ ListedOrCut(Shown(e), lreport.german_pref)
            /\ ListedOrCut(Shown(e), lreport.german_pref_without_alt)

C7_Witness ==
    /\ pc = "reported"
    /\ \E e \in GermanOnly : \E l \in PreferredLabels(e) : <<e, RDFS_label, l>> \in graph
    /\ \E e \in GermanOnly : Shown(e) \notin Range(lreport.german_pref_without_alt)
    /\ \E e \in GermanOnly :
          /\ \E t \in graph : t[1] = e /\ t[2] = SKOS_altLabel
          /\ Shown(e) \in Range(lreport.german_pref_without_alt)

HasEnglishPref(e) == \E l \in PreferredLabels(e) : l.lang = s_en
HasGermanPref(e) == \E l \in PreferredLabels(e) : l.lang = s_de

\* C8 (as stated): an entity with an English-tagged preferred label appears
\* neither in english_pref_missing nor in german_pref.
C8_EnglishNotListed ==
    pc = "reported" =>
        \A e \in AllSubjects(graph) :
            HasEnglishPref(e) =>
                /\ Shown(e) \notin Range(lreport.english_pref_missing)
                /\ Shown(e) \notin Range(lreport.german_pref)

\* C8 (amended): an entity with an English-tagged preferred label never
\* appears in english_pref_missing, and appears in german_pref only if it
\* also has a preferred label tagged de.
C8_EnglishListedOnlyIfGerman ==
    pc = "reported" =>
        \A e \in AllSubjects(graph) :
            HasEnglishPref(e) =>
                /\ Shown(e) \notin Range(lreport.english_pref_missing)
                /\ Shown(e) \in Range(lreport.german_pref) => HasGermanPref(e)

C8_Witness ==
    /\ pc = "reported"
    /\ \E e \in AllSubjects(graph) :
          /\ HasEnglishPref(e) /\ HasGermanPref(e)
          /\ Shown(e) \in Range(lreport.german_pref)
    /\ Len(lreport.english_pref_missing) > 0

IsSortedSample(list) ==
    /\ Len(list) <= sample_limit
    /\ \A i, j \in 1..Len(list) : i < j => StrLess(list[i], list[j])

\* C9: each of the four categories is reported as a sorted sample of at most
\* sample_limit identifiers, and the count reported for the category is the
\* number of entities in it, however many there are.
C9_CategoryCounts ==
    pc = "reported" =>
        /\ IsSortedSample(lreport.english_pref_missing)
        /\ IsSortedSample(lreport.german_pref)
        /\ IsSortedSample(lreport.german_pref_without_alt)
        /\ IsSortedSample(lreport.other_non_english_pref)
        /\ printed.english_pref_missing
              = Cardinality({e \in AllSubjects(graph) :
                                PreferredLabels(e) # {} /\ ~HasEnglishPref(e)})
        /\ printed.german_pref
              = Cardinality({e \in AllSubjects(graph) : HasGermanPref(e)})
        /\ printed.german_pref_without_alt
              = Cardinality({e \in AllSubjects(graph) :
                                HasGermanPref(e) /\ ~HasGermanAlt(e)})
        /\ printed.other_non_english_pref
              = Cardinality({e \in AllSubjects(graph) :
                                \E l \in PreferredLabels(e) :
                                    l.lang \notin {NoStr, s_en, s_de}})

-----------------------------------------------------------------------------
(* Properties of the exported table *)

RestrictionColumnNames ==
    {"on_property", "restriction_type", "restriction_filler", "cardinality_value"}

OverflowColumnNames == {"id", "annotation_predicate", "annotation_value"}

\* a row with every column empty except id and the annotation pair
IsOverflowShape(row) == \A col \in COLUMNS \ OverflowColumnNames : row[col] = NoStr

RowIds == {rows[i].id : i \in 1..Len(rows)}

RowsWithId(id) == {i \in 1..Len(rows) : rows[i].id = id}

Exported == mode = "roundtrip" /\ pc \in {"rows", "rebuilt", "done"}

\* C11: each entity identifier has at most one primary row, and every other
\* row with that identifier has all columns empty except id,
\* annotation_predicate and annotation_value.
C11_OnePrimaryRow ==
    Exported =>
        \A id \in RowIds :
            Cardinality({i \in RowsWithId(id) : ~IsOverflowShape(rows[i])}) <= 1

\* C11 (amended): the first row of an identifier is its primary row (it
\* carries entity_type and no restriction column); every later row with that
\* identifier is a restriction row of a Class, equal to the primary row
\* outside the four restriction columns, or an overflow row with all columns
\* empty except id, annotation_predicate and annotation_value.
C11_PrimaryRestrictionOverflow ==
    Exported =>
        \A id \in RowIds :
            LET first == SetMin(RowsWithId(id))
            IN  /\ rows[first].entity_type # NoStr
                /\ \A col \in RestrictionColumnNames : rows[first][col] = NoStr
                /\ \A i \in RowsWithId(id) \ {first} :
                      \/ IsOverflowShape(rows[i])
                      \/ /\ rows[first].entity_type = t_Class
                         /\ \A col \in COLUMNS \ RestrictionColumnNames :
                               rows[i][col] = rows[first][col]

C11_Witness ==
    /\ Exported
    /\ \E id \in RowIds :
          /\ \E i \in RowsWithId(id) : rows[i].on_property # NoStr /\ rows[i].entity_type = t_Class
          /\ \E i \in RowsWithId(id) : IsOverflowShape(rows[i])

-----------------------------------------------------------------------------
(* The export mode: parse an ontology, write its table *)

x1 == BNode(<<"x", "1">>)
rq == BNode(<<"r", "q">>)

Two == Literal(<<"2">>, NoStr, Str(XSD_integer))
Three == Literal(<<"3">>, NoStr, Str(XSD_integer))

\* what an exported ontology is assembled from: an entity A with any mix of
\* types, descriptive values and alignments, a restriction node rq on A with
\* any mix of kind-determining predicates, a second class B and an
\* anonymous owl:AllDisjointClasses node
ExportFragments ==
    << {<<A, RDF_type, OWL_Class>>},
       {<<A, RDF_type, OWL_ObjectProperty>>},
       {<<A, RDF_type, OWL_DatatypeProperty>>},
       {<<A, RDF_type, OWL_AnnotationProperty>>},
       {<<A, RDF_type, B>>},
       {<<A, SKOS_prefLabel, Pump>>, <<A, SKOS_prefLabel, Pumpe>>},
       {<<A, SKOS_definition, Literal(<<"d">>, NoStr, NoStr)>>,
        <<A, SKOS_definition, Literal(<<"e">>, s_de, NoStr)>>},
       {<<A, DCTERMS_SOURCE, Literal(<<"s">>, NoStr, NoStr)>>,
        <<A, DCTERMS_SOURCE, Literal(<<"t">>, s_de, NoStr)>>},
       {<<A, DCTERMS_SOURCE, S1>>},
       {<<A, SKOS_exactMatch, T1>>, <<A, SKOS_exactMatch, T2>>},
       {<<A, SKOS_altLabel, Pompe>>},
       {<<A, RDF_type, OWL_Class>>, <<A, RDFS_subClassOf, rq>>,
        <<rq, RDF_type, OWL_Restriction>>, <<rq, OWL_onProperty, P>>},
       {<<rq, OWL_someValuesFrom, B>>},
       {<<rq, OWL_allValuesFrom, B>>},
       {<<rq, OWL_minCardinality, One>>},
       {<<rq, OWL_maxQualifiedCardinality, Two>>, <<rq, OWL_onClass, B>>},
       {<<rq, OWL_cardinality, Three>>},
       {<<B, RDF_type, OWL_Class>>},
       {<<x1, RDF_type, OWL_AllDisjointClasses>>},
       {<<d1, RDF_type, OWL_AllDisjointClasses>>} >>

ExportGraphs ==
    {UNION {ExportFragments[i] : i \in c} :
        c \in ChoicesUpTo(1..Len(ExportFragments), MaxFragments)}

InitExport ==
    /\ mode = "export"
    /\ pc = "ttl"
    /\ graph \in ExportGraphs
    /\ enum_order \in {"asc", "desc"}
    /\ rows = NoRows
    /\ regraph = NoGraph
    /\ identical = "unknown"
    /\ IdleLiteral
    /\ IdleReport
    /\ IdleCli
    /\ IdleDsi

NextExport == GraphToTable

SpecExport == InitExport /\ [][NextExport]_vars

-----------------------------------------------------------------------------
(* Properties of the export *)

ExportedRows == mode = "export" /\ pc = "rows"

StrLeq(s, t) == s = t \/ StrLess(s, t)

\* the entity a row belongs to
EntityOfRow(i) == CHOOSE e \in Entities(graph) : EntityId(e) = rows[i].id

\* the predicate under which the label overflow rows of e are written
LabelPredicateOf(e) ==
    IF LiteralsOn(graph, e, SKOS_prefLabel) # {} THEN SKOS_prefLabel ELSE RDFS_label

\* the category of row i in the order the contract names: primary row,
\* label, definition, comment, example, source, extra alignments, generic
ClaimedCategory(i) ==
    LET p == rows[i].annotation_predicate
    IN  IF ~IsOverflowShape(rows[i]) THEN 0
        ELSE IF p = Str(LabelPredicateOf(EntityOfRow(i))) THEN 1
        ELSE IF p = Str(SKOS_definition) THEN 2
        ELSE IF p = Str(RDFS_comment) THEN 3
        ELSE IF p = Str(SKOS_example) THEN 4
        ELSE IF p = Str(DCTERMS_SOURCE) THEN 5
        ELSE IF p = Str(SKOS_exactMatch) THEN 6
        ELSE 7

\* rows of one identifier are contiguous
GroupedById ==
    \A i, j, k \in 1..Len(rows) :
        (i < j /\ j < k /\ rows[i].id = rows[k].id) => rows[j].id = rows[i].id

SortKey(id) == IF StartsWith(id, s_bnode) THEN Slice(id, 3, Len(id)) ELSE id

\* the category of row i in the order the rows are written: primary row,
\* restriction rows, label, definition, comment, example, source literals,
\* extra alignments, non-literal sources, generic
WrittenCategory(i) ==
    LET p == rows[i].annotation_predicate
        e == EntityOfRow(i)
    IN  IF ~IsOverflowShape(rows[i])
        THEN (IF \A col \in RestrictionColumnNames : rows[i][col] = NoStr THEN 0 ELSE 1)
        ELSE IF p = Str(LabelPredicateOf(e)) THEN 2
        ELSE IF p = Str(SKOS_definition) THEN 3
        ELSE IF p = Str(RDFS_comment) THEN 4
        ELSE IF p = Str(SKOS_example) THEN 5
        ELSE IF p = Str(DCTERMS_SOURCE)
        THEN (IF rows[i].annotation_value
                    \in {_literal_to_text(l) : l \in LiteralsOn(graph, e, DCTERMS_SOURCE)}
              THEN 6 ELSE 8)
        ELSE IF p = Str(SKOS_exactMatch) THEN 7
        ELSE 9

TypeByPriority(types) ==
    CASE OWL_Class \in types -> t_Class
      [] OWL_Class \notin types /\ OWL_ObjectProperty \in types -> t_ObjectProperty
      [] {OWL_Class, OWL_ObjectProperty} \cap types = {}
            /\ OWL_DatatypeProperty \in types -> t_DataProperty
      [] {OWL_Class, OWL_ObjectProperty, OWL_DatatypeProperty} \cap types = {}
            /\ OWL_AnnotationProperty \in types -> t_AnnotationProperty
      [] OTHER -> t_Individual

\* C13: every entity gets exactly one entity_type, the first match in the
\* order Class, ObjectProperty, DataProperty, AnnotationProperty, else
\* Individual (also when it has no rdf:type at all).
C13_EntityTypePriority ==
    ExportedRows =>
        \A e \in Entities(graph) :
            /\ RowsWithId(EntityId(e)) # {}
            /\ {rows[i].entity_type : i \in RowsWithId(EntityId(e))} \ {NoStr}
                  = {TypeByPriority(TypesOf(graph, e))}

C13_Witness ==
    /\ ExportedRows
    /\ \E e \in Entities(graph) :
          /\ {OWL_Class, OWL_ObjectProperty} \subseteq TypesOf(graph, e)
          /\ \E i \in RowsWithId(EntityId(e)) : rows[i].entity_type = t_Class
    /\ \E e \in Entities(graph) :
          /\ TypesOf(graph, e) \cap structural_types = {}
          /\ \E i \in RowsWithId(EntityId(e)) : rows[i].entity_type = t_Individual

\* the cardinality objects of a restriction node, by kind
MinCards(g, n) ==
    {t[3] : t \in {u \in g : u[1] = n /\ u[2] \in {OWL_minQualifiedCardinality, OWL_minCardinality}}}

MaxCards(g, n) ==
    {t[3] : t \in {u \in g : u[1] = n /\ u[2] \in {OWL_maxQualifiedCardinality, OWL_maxCardinality}}}

ExactCards(g, n) ==
    {t[3] : t \in {u \in g : u[1] = n /\ u[2] \in {OWL_qualifiedCardinality, OWL_cardinality}}}

\* the kind that the priority min over max over exact over some/only names
KindByPriority(g, n) ==
    IF MinCards(g, n) # {} THEN t_min
    ELSE IF MaxCards(g, n) # {} THEN t_max
    ELSE IF ExactCards(g, n) # {} THEN t_exact
    ELSE IF \E t \in g : t[1] = n /\ t[2] = OWL_someValuesFrom THEN t_some
    ELSE IF \E t \in g : t[1] = n /\ t[2] = OWL_allValuesFrom THEN t_only
    ELSE NoStr

\* the cardinality values that go with that kind
CardsByPriority(g, n) ==
    IF MinCards(g, n) # {} THEN MinCards(g, n)
    ELSE IF MaxCards(g, n) # {} THEN MaxCards(g, n)
    ELSE ExactCards(g, n)

\* the rows written for the restriction nodes of the exported graph
RestrictionRowsWritten == {i \in 1..Len(rows) : rows[i].on_property # NoStr}

\* C14: a restriction node with more than one kind-determining predicate is
\* written with the kind of highest priority, min over max over exact over
\* some/only, and with the cardinality value of that kind.
C14_MinOverMaxOverExact ==
    ExportedRows =>
        \A i \in RestrictionRowsWritten :
            \E n \in Subjects(graph, RDF_type, OWL_Restriction) :
                /\ rows[i].restriction_type = KindByPriority(graph, n)
                /\ \/ /\ CardsByPriority(graph, n) = {}
                      /\ rows[i].cardinality_value = NoStr
                   \/ \E c \in CardsByPriority(graph, n) :
                        rows[i].cardinality_value = ItemText(c)

-----------------------------------------------------------------------------
(* String-to-resource resolution of one cell *)

\* characters of the cell texts: whitespace, the literal markers, the
\* blank-node marker, the brackets and a letter
CellChars == {" ", "@", "^", "_", ":", "<", ">", "a"}

CellTexts == SeqsUpTo(CellChars, MaxLen)

InitCell ==
    /\ mode = "cell"
    /\ pc = "text"
    /\ lit = None
    /\ cell \in CellTexts
    /\ relit = None
    /\ IdleTable
    /\ IdleReport
    /\ IdleCli
    /\ IdleDsi

\* uri_val = _as_uri(part, graph)
AsUri ==
    /\ mode = "cell"
    /\ pc = "text"
    /\ relit' = _as_uri(cell)
    /\ pc' = "resolved"
    /\ UNCHANGED <<mode, lit, cell, tableVars, reportVars, cliVars, dsiVars>>

\* uri_val or _literal_from_value(part)
OrLiteralFromValue ==
    /\ mode = "cell"
    /\ pc = "resolved"
    /\ relit' = OrLiteral(relit, cell)
    /\ pc' = "value"
    /\ UNCHANGED <<mode, lit, cell, tableVars, reportVars, cliVars, dsiVars>>

NextCell == AsUri \/ OrLiteralFromValue

SpecCell == InitCell /\ [][NextCell]_vars

-----------------------------------------------------------------------------
(* Properties of the resolution *)

\* the text holds whitespace, an '@' or the '^^' marker
HasLiteralMarker(text) ==
    \/ \E i \in 1..Len(text) : IsSpace(text[i])
    \/ Contains(text, <<"@">>)
    \/ Contains(text, <<"^", "^">>)

\* C15: _as_uri returns None for every input that contains whitespace, an
\* '@' or '^^', whatever its prefix or bracketing, and the cell is then
\* reconstructed as a literal. (Whitespace around the text, which _as_uri
\* strips first, is not counted.)
C15_MarkedTextIsNoResource ==
    (mode = "cell" /\ HasLiteralMarker(Strip(cell))) =>
        /\ pc = "resolved" => relit = None
        /\ pc = "value" => IsLiteral(relit)

-----------------------------------------------------------------------------
(* The import mode on hand-written tables *)

\* two blank-node markers as a table holds them
k_x1 == s_bnode \o <<"x", "1">>
k_x2 == s_bnode \o <<"x", "2">>

\* rows with blank-node markers in the id and in resource cells, and rows
\* whose id resolves to no resource (empty, with whitespace, no scheme or
\* prefix, unbound prefix, language-tagged), and a Class row that carries
\* both a restriction and a list annotation, a cardinality restriction row and
\* a second declaration of its property
ImportRowPool ==
    { Update(EmptyRow, [id |-> k_x1, entity_type |-> t_Class, subclass_of |-> k_x2]),
      Update(EmptyRow, [id |-> k_x2, entity_type |-> t_Class,
                        disjoint_with |-> k_x1 \o <<"|">> \o k_x2]),
      Update(EmptyRow, [id |-> <<" ">> \o k_x1 \o <<" ">>, entity_type |-> t_Class,
                        dccx_alignment |-> k_x1]),
      Update(EmptyRow, [id |-> Str(A), entity_type |-> t_Class,
                        annotation_predicate |-> Str(SKOS_altLabel),
                        annotation_value |-> k_x2]),
      Update(EmptyRow, [id |-> Str(A), entity_type |-> t_Class, on_property |-> Str(P),
                        restriction_type |-> t_some, restriction_filler |-> k_x1]),
      Update(EmptyRow, [id |-> Str(P), entity_type |-> t_DataProperty,
                        property_range |-> UnionAB]),
      Update(EmptyRow, [id |-> NoStr, entity_type |-> t_Class,
                        label |-> _literal_to_text(Pump)]),
      Update(EmptyRow, [id |-> <<"n", "o", " ", "i", "d">>, entity_type |-> t_ObjectProperty,
                        property_domain |-> UnionAB]),
      Update(EmptyRow, [id |-> <<"z", ":", "A">>, entity_type |-> t_Class,
                        on_property |-> Str(P), restriction_type |-> t_some,
                        restriction_filler |-> Str(B)]),
      Update(EmptyRow, [id |-> Str(P) \o <<"@">> \o s_en, entity_type |-> t_DataProperty,
                        annotation_predicate |-> Str(OWL_members),
                        annotation_value |-> Str(A) \o <<"|">> \o Str(B)]),
      Update(EmptyRow, [id |-> Str(B), entity_type |-> t_Class, on_property |-> Str(P),
                        restriction_type |-> t_min, restriction_filler |-> Str(A),
                        cardinality_value |-> _literal_to_text(One),
                        annotation_predicate |-> Str(OWL_unionOf),
                        annotation_value |-> Str(A) \o <<"|">> \o Str(B)]),
      Update(EmptyRow, [id |-> Str(A), entity_type |-> t_Class, on_property |-> Str(P),
                        restriction_type |-> t_max, restriction_filler |-> Str(B),
                        cardinality_value |-> _literal_to_text(One)]),
      Update(EmptyRow, [id |-> Str(P), entity_type |-> t_ObjectProperty]) }

ImportTables == UNION {[1..n -> ImportRowPool] : n \in 0..MaxRows}

InitImport ==
    /\ mode = "import"
    /\ pc = "csv"
    /\ graph = NoGraph
    /\ enum_order = "asc"
    /\ rows \in ImportTables
    /\ regraph = NoGraph
    /\ identical = "unknown"
    /\ IdleLiteral
    /\ IdleReport
    /\ IdleCli
    /\ IdleDsi

NextImport == TableToGraph

SpecImport == InitImport /\ [][NextImport]_vars

-----------------------------------------------------------------------------
(* Properties of the import *)

Imported == mode = "import" /\ pc = "rebuilt"

\* the key of a cell text that is a blank-node marker, NoStr otherwise
KeyOf(text) ==
    IF StartsWith(Strip(text), s_bnode) THEN Slice(Strip(text), 3, Len(Strip(text))) ELSE NoStr

\* the Class rows whose id is a marker or the URI of A
KeyRows == {i \in 1..Len(rows) : KeyOf(rows[i].id) # NoStr \/ rows[i].id = Str(A)}

\* the resource cells of row i that hold markers: <<predicate, key>>
KeyCells(i) ==
    {<<RDFS_subClassOf, KeyOf(x)>> : x \in Range(Split(rows[i].subclass_of, "|"))}
        \cup {<<OWL_disjointWith, KeyOf(x)>> : x \in Range(Split(rows[i].disjoint_with, "|"))}
        \cup {<<SKOS_exactMatch, KeyOf(rows[i].dccx_alignment)>>}
        \cup {<<SKOS_altLabel, KeyOf(rows[i].annotation_value)>>}

\* the keys a table uses
KeysIn(rws) ==
    ({KeyOf(rws[i].id) : i \in 1..Len(rws)}
        \cup {KeyOf(rws[i].restriction_filler) : i \in 1..Len(rws)}
        \cup UNION {{c[2] : c \in KeyCells(i)} : i \in 1..Len(rws)}) \ {NoStr}

\* node is the subject that row i stands for under the key assignment f
SubjectIs(i, f, node) ==
    IF KeyOf(rows[i].id) # NoStr THEN node = f[KeyOf(rows[i].id)]
    ELSE node = URIRef(rows[i].id)

\* C16: within one table_to_graph run every row id and every cell value with
\* the same '_:' key resolves to one and the same blank node, and two
\* different keys resolve to two different blank nodes.
C16_StableKeys ==
    Imported =>
        \E f \in [KeysIn(rows) -> BNodesOf(regraph)] :
            /\ \A k1, k2 \in KeysIn(rows) : k1 # k2 => f[k1] # f[k2]
            /\ \A i \in KeyRows :
                  \E node \in {t[1] : t \in regraph} :
                      /\ SubjectIs(i, f, node)
                      /\ <<node, RDF_type, OWL_Class>> \in regraph
                      /\ \A c \in KeyCells(i) :
                            c[2] # NoStr => <<node, c[1], f[c[2]]>> \in regraph
                      /\ KeyOf(rows[i].restriction_filler) # NoStr =>
                            \E r \in BNodesOf(regraph) :
                                /\ <<node, RDFS_subClassOf, r>> \in regraph
                                /\ <<r, OWL_someValuesFrom,
                                     f[KeyOf(rows[i].restriction_filler)]>> \in regraph

C16_Witness ==
    /\ Imported
    /\ Cardinality(KeysIn(rows)) = 2
    /\ \E i, j \in KeyRows :
          /\ i # j
          /\ KeyOf(rows[i].id) # NoStr
          /\ \E c \in KeyCells(j) : c[2] = KeyOf(rows[i].id)
    /\ \E t \in regraph : IsBNode(t[1]) /\ IsBNode(t[3]) /\ t[1] # t[3]

\* the id of the row resolves to no resource
Unresolved(row) == _as_uri(row.id) = None

Resolved(row) == ~Unresolved(row)

\* C17: a row whose id cannot be resolved contributes no triple:
\* table_to_graph of a row sequence is isomorphic to table_to_graph of the
\* sequence with those rows removed.
C17_UnresolvedRowsContributeNothing ==
    Imported => Isomorphic(regraph, table_to_graph(SelectSeq(rows, Resolved)))

C17_Witness ==
    /\ Imported
    /\ \E i, j \in 1..Len(rows) :
          /\ Unresolved(rows[i])
          /\ rows[i].entity_type # NoStr
          /\ Resolved(rows[j])
    /\ regraph # {}

-----------------------------------------------------------------------------
(* The command line: main *)

Flags == {"input_ttl", "input_csv", "output_csv", "output_ttl", "roundtrip_ttl", "schema_xsd"}

Modes == {"export", "import", "roundtrip", "validate"}

\* the flags whose absence makes main call parser.error
RequiredFlags(m) ==
    CASE m = "export" -> {"input_ttl", "output_csv"}
      [] m = "import" -> {"input_csv", "output_ttl"}
      [] m = "validate" -> {"input_ttl"}
      [] OTHER -> {"input_ttl", "output_csv", "roundtrip_ttl"}

\* the files a mode reads and writes once its flags are complete, in order
ModeIO(m) ==
    CASE m = "export" -> << <<"read", "input_ttl">>, <<"write", "output_csv">> >>
      [] m = "import" -> << <<"read", "input_csv">>, <<"write", "output_ttl">> >>
      [] m = "validate" -> << <<"read", "input_ttl">> >>
      [] OTHER -> << <<"read", "input_ttl">>, <<"write", "output_csv">>,
                     <<"write", "roundtrip_ttl">> >>

\* args = parser.parse_args(): any mode with any set of flags
InitMain ==
    /\ mode \in Modes
    /\ pc = "parsed"
    /\ args \in SUBSET Flags
    /\ io = <<>>
    /\ IdleLiteral
    /\ IdleTable
    /\ IdleReport
    /\ IdleDsi

\* schema_terms = _load_schema_terms(args.schema_xsd) if args.schema_xsd
\* else set(): ET.parse reads the XSD file (the terms read are not modelled)
LoadSchemaTerms ==
    /\ mode \in Modes
    /\ pc = "parsed"
    /\ io' = IF "schema_xsd" \in args THEN Append(io, <<"read", "schema_xsd">>) ELSE io
    /\ pc' = "loaded"
    /\ UNCHANGED <<mode, args, litVars, tableVars, reportVars, dsiVars>>

\* if not args.<flag> ...: parser.error(...)
ParserError ==
    /\ pc = "loaded"
    /\ ~(RequiredFlags(mode) \subseteq args)
    /\ io' = Append(io, <<"error", mode>>)
    /\ pc' = "exit"
    /\ UNCHANGED <<mode, args, litVars, tableVars, reportVars, dsiVars>>

\* the body of the mode's branch
RunMode ==
    /\ pc = "loaded"
    /\ RequiredFlags(mode) \subseteq args
    /\ io' = io \o ModeIO(mode)
    /\ pc' = "done"
    /\ UNCHANGED <<mode, args, litVars, tableVars, reportVars, dsiVars>>

NextMain == LoadSchemaTerms \/ ParserError \/ RunMode

SpecMain == InitMain /\ [][NextMain]_vars

-----------------------------------------------------------------------------
(* Properties of the command line *)

\* C18: in every mode and for every combination of flags, when a required
\* flag is missing the argument error is reported before any file is read or
\* written.
C18_ErrorBeforeAnyIO ==
    (mode \in Modes /\ ~(RequiredFlags(mode) \subseteq args)) =>
        /\ \A i \in 1..Len(io) : io[i][1] \notin {"read", "write"}
        /\ pc = "exit" => io = << <<"error", mode>> >>

-----------------------------------------------------------------------------
(* Properties of the multi-valued cells *)

\* the rows of the properties of the exported graph
PropertyRowsWritten ==
    {i \in 1..Len(rows) : rows[i].entity_type \in {t_ObjectProperty, t_DataProperty}}

\* the values graph_to_table joins into the cell of predicate pred
JoinedValues(i, pred) ==
    SortStrs(Serialized(graph, Objects(graph, URIRef(rows[i].id), pred)))

\* C19: splitting a property_domain / property_range cell written by
\* graph_to_table returns exactly the list of values that were joined, every
\* union(...) / oneOf(...) expression as one unsplit item.
C19_SplitReturnsJoinedValues ==
    Exported =>
        \A i \in PropertyRowsWritten :
            /\ _split_multivalue(rows[i].property_domain) = JoinedValues(i, RDFS_domain)
            /\ _split_multivalue(rows[i].property_range) = JoinedValues(i, RDFS_range)

-----------------------------------------------------------------------------
(* Properties of the exported pairs *)

\* the cell texts that can stand for the object o
TextsOf(o) ==
    {ItemText(o)}
        \cup (IF IsBNode(o)
              THEN {s_bnode \o Str(o), _serialize_class_expression(graph, o)} \ {NoneText}
              ELSE {})

\* (e, rdf:type, o) is the triple that gives e its entity_type
OwnTypeTriple(e, p, o) ==
    /\ p = RDF_type
    /\ o \in {OWL_Class, OWL_ObjectProperty, OWL_DatatypeProperty, OWL_AnnotationProperty}
    /\ TypeByPriority({o}) = TypeByPriority(TypesOf(graph, e))

\* the pair (p, o) of e shows in a row of e: the text of o in a field, a
\* characteristic name in property_characteristic, or a restriction row for a
\* restriction node
Represented(e, p, o) ==
    \E i \in RowsWithId(EntityId(e)) :
        \/ \E col \in COLUMNS \ {"id", "annotation_value"}, t \in TextsOf(o) :
              Contains(rows[i][col], t)
        \/ \E t \in TextsOf(o) :
              /\ rows[i].annotation_predicate = Str(p)
              /\ Contains(rows[i].annotation_value, t)
        \/ /\ p = RDF_type
           /\ \E c \in CHARACTERISTIC_TYPES :
                 c[1] = o /\ Contains(rows[i].property_characteristic, c[2])
        \/ /\ <<o, RDF_type, OWL_Restriction>> \in graph
           /\ rows[i].on_property # NoStr

\* C20: for every named entity e and every triple (e, p, o) other than the
\* rdf:type triple that gives e its entity_type, the pair (p, o) is
\* represented in at least one row of e.
C20_NoPairDropped ==
    (pc = "rows" /\ mode \in {"export", "roundtrip"}) =>
        \A t \in graph :
            (IsURIRef(t[1]) /\ ~OwnTypeTriple(t[1], t[2], t[3])) =>
                Represented(t[1], t[2], t[3])

-----------------------------------------------------------------------------
(* Properties of the overflow rows *)

\* the pair (p, o) of an entity is rendered into a named field of row
InNamedField(e, row, p, o) ==
    \/ p = SKOS_prefLabel /\ row.label # NoStr /\ row.label = ItemText(o)
    \/ /\ p = RDFS_label /\ row.label # NoStr /\ row.label = ItemText(o)
       /\ ~\E t \in graph : t[1] = e /\ t[2] = SKOS_prefLabel
    \/ p = SKOS_exactMatch /\ row.dccx_alignment # NoStr /\ row.dccx_alignment = Str(o)
    \/ p = SKOS_definition /\ row.definition # NoStr /\ row.definition = ItemText(o)
    \/ p = RDFS_comment /\ row.comment # NoStr /\ row.comment = ItemText(o)
    \/ p = SKOS_example /\ row.example # NoStr /\ row.example = ItemText(o)
    \/ p = DCTERMS_SOURCE /\ row.source # NoStr /\ row.source = ItemText(o)
    \/ p = RDFS_subClassOf /\ Str(o) \in Range(Split(row.subclass_of, "|"))
    \/ p = OWL_equivalentClass /\ Str(o) \in Range(Split(row.equivalent_to, "|"))
    \/ p = OWL_disjointWith /\ Str(o) \in Range(Split(row.disjoint_with, "|"))
    \/ p = RDFS_domain /\ row.property_domain # NoStr
           /\ Contains(row.property_domain, _serialize_class_expression(graph, o))
    \/ p = RDFS_range /\ row.property_range # NoStr
           /\ Contains(row.property_range, _serialize_class_expression(graph, o))
    \/ /\ p = RDF_type
       /\ \E c \in CHARACTERISTIC_TYPES :
             c[1] = o /\ c[2] \in Range(Split(row.property_characteristic, "|"))
    \/ p = OWL_inverseOf /\ row.inverse_of # NoStr /\ row.inverse_of = Str(o)

\* row j is an overflow row that carries the pair (p, o)
OverflowCarries(j, p, o) ==
    /\ rows[j].annotation_predicate = Str(p)
    /\ rows[j].annotation_value = ItemText(o)

\* C21: a predicate-object pair rendered into a named field of the primary
\* row of its entity is never emitted again as an
\* annotation_predicate / annotation_value overflow row.
C21_NoPairWrittenTwice ==
    (pc = "rows" /\ mode = "roundtrip") =>
        \A t \in graph :
            \A i, j \in RowsWithId(EntityId(t[1])) :
                InNamedField(t[1], rows[i], t[2], t[3]) => ~OverflowCarries(j, t[2], t[3])

-----------------------------------------------------------------------------
(* Properties of the re-exported table *)

\* a cell with the name of a blank node erased
Unnamed(text) == IF StartsWith(text, s_bnode) THEN s_bnode ELSE text

\* the rows of a table as a set, blank-node identifiers erased
RowSet(rws) ==
    {[col \in COLUMNS |-> Unnamed(rws[i][col])] : i \in 1..Len(rws)}

\* C22: for every graph G of supported constructs, with R = graph_to_table(G),
\* graph_to_table(table_to_graph(R)) equals R as a set of rows up to the
\* renaming of blank-node identifiers.
C22_ReexportGivesSameTable ==
    (mode = "roundtrip" /\ pc = "rebuilt" /\ Supported(graph)) =>
        RowSet(graph_to_table(regraph)) = RowSet(rows)

\* the Class rows with a resolvable id and a non-empty on_property
RestrictionRowsRead ==
    {i \in 1..Len(rows) :
        Resolved(rows[i]) /\ rows[i].entity_type = t_Class /\ rows[i].on_property # NoStr}

\* the nodes typed owl:Restriction in the rebuilt graph
RestrictionNodes == {t[1] : t \in {u \in regraph : u[2] = RDF_type /\ u[3] = OWL_Restriction}}

\* C23: table_to_graph creates one new blank node, typed owl:Restriction and
\* attached to the row's class by rdfs:subClassOf, for every Class row with a
\* non-empty on_property, also when two rows are identical.
C23_OneRestrictionPerRow ==
    Imported =>
        /\ Cardinality(RestrictionNodes) = Cardinality(RestrictionRowsRead)
        /\ \A n \in RestrictionNodes :
              /\ IsBNode(n)
              /\ \E i \in RestrictionRowsRead :
                    <<_as_uri(rows[i].id), RDFS_subClassOf, n>> \in regraph

-----------------------------------------------------------------------------
(* Properties of the rebuilt restrictions *)

CardinalityPredicates ==
    {OWL_minQualifiedCardinality, OWL_minCardinality, OWL_maxQualifiedCardinality,
     OWL_maxCardinality, OWL_qualifiedCardinality, OWL_cardinality}

\* the triples of node n in g that say its cardinality and its filler
CardinalityPart(g, n) ==
    {<<t[2], t[3]>> : t \in {u \in g : u[1] = n /\ u[2] \in CardinalityPredicates
                                           \cup {OWL_onClass, OWL_onDataRange}}}

\* the source restrictions of kind min, max or exact that get a row:
\* <<class, node>>
CardinalityRestrictions ==
    {<<t[1], t[3]>> : t \in {u \in graph :
        /\ u[2] = RDFS_subClassOf
        /\ <<u[1], RDF_type, OWL_Class>> \in graph
        /\ <<u[3], RDF_type, OWL_Restriction>> \in graph
        /\ \E v \in graph : v[1] = u[3] /\ v[2] \in CardinalityPredicates}}

\* C24: the restriction rebuilt from the row of a min / max / exact source
\* restriction carries the same cardinality predicate (qualified or
\* unqualified as in the source), the same cardinality literal and the same
\* owl:onClass / owl:onDataRange filler.
C24_CardinalityPredicateKept ==
    (mode = "roundtrip" /\ pc = "rebuilt") =>
        \A r \in CardinalityRestrictions :
            \E n \in BNodesOf(regraph) :
                /\ <<r[1], RDFS_subClassOf, n>> \in regraph
                /\ CardinalityPart(regraph, n) = CardinalityPart(graph, r[2])

\* the owl type that an entity_type cell names
DeclaredType(entity_type) ==
    CASE entity_type = t_Class -> OWL_Class
      [] entity_type = t_ObjectProperty -> OWL_ObjectProperty
      [] entity_type = t_DataProperty -> OWL_DatatypeProperty
      [] OTHER -> OWL_AnnotationProperty

\* the rows with a resolvable id and a structural entity_type
StructuralRowsRead ==
    {i \in 1..Len(rows) :
        /\ Resolved(rows[i])
        /\ rows[i].entity_type \in {t_Class, t_ObjectProperty, t_DataProperty,
                                    t_AnnotationProperty}}

\* C25: for every row with a resolvable id and an entity_type among Class,
\* ObjectProperty, DataProperty, AnnotationProperty, table_to_graph adds the
\* rdf:type triple and the structural triples of the row (here: its
\* restriction, its domain and its range), whatever the annotation_predicate
\* and annotation_value columns hold.
C25_StructuralColumnsRead ==
    Imported =>
        \A i \in StructuralRowsRead :
            /\ <<_as_uri(rows[i].id), RDF_type, DeclaredType(rows[i].entity_type)>> \in regraph
            /\ (rows[i].entity_type = t_Class /\ rows[i].on_property # NoStr) =>
                  \E n \in RestrictionNodes :
                      <<_as_uri(rows[i].id), RDFS_subClassOf, n>> \in regraph
            /\ (rows[i].entity_type \in {t_ObjectProperty, t_DataProperty}
                  /\ rows[i].property_domain # NoStr) =>
                  \E t \in regraph : t[1] = _as_uri(rows[i].id) /\ t[2] = RDFS_domain
            /\ (rows[i].entity_type \in {t_ObjectProperty, t_DataProperty}
                  /\ rows[i].property_range # NoStr) =>
                  \E t \in regraph : t[1] = _as_uri(rows[i].id) /\ t[2] = RDFS_range

\* the min / max / exact restriction rows with a filler
CardinalityRowsRead ==
    {i \in RestrictionRowsRead :
        /\ Strip(rows[i].restriction_type) \in {t_min, t_max, t_exact}
        /\ _as_uri(rows[i].restriction_filler) # None}

\* some row of the table declares the on_property of row i as DataProperty
DeclaredDataProperty(i) ==
    \E j \in 1..Len(rows) :
        /\ Resolved(rows[j])
        /\ _as_uri(rows[j].id) = _as_uri(rows[i].on_property)
        /\ Strip(rows[j].entity_type) = t_DataProperty

\* C26: the filler of a min / max / exact restriction row is attached via
\* owl:onDataRange exactly when some row of the table declares the on_property
\* entity as DataProperty, and via owl:onClass otherwise, wherever the
\* declaring row stands in the sequence.
C26_FillerPredicateByDeclaration ==
    Imported =>
        \A i \in CardinalityRowsRead :
            \E n \in RestrictionNodes :
                /\ <<_as_uri(rows[i].id), RDFS_subClassOf, n>> \in regraph
                /\ <<n, OWL_onProperty, _as_uri(rows[i].on_property)>> \in regraph
                /\ <<n, IF DeclaredDataProperty(i) THEN OWL_onDataRange ELSE OWL_onClass,
                     _as_uri(rows[i].restriction_filler)>> \in regraph
                /\ ~\E t \in regraph :
                      /\ t[1] = n
                      /\ t[2] = (IF DeclaredDataProperty(i) THEN OWL_onClass ELSE OWL_onDataRange)

-----------------------------------------------------------------------------
(* The export of graphs with malformed lists *)

o1 == BNode(<<"o", "1">>)
e1 == BNode(<<"e", "1">>)
ListCell(n) == BNode(<<"c">> \o NumStr(n))

\* the lists of the graphs: the node and predicate that hold the list, its
\* two cells and its two items
ListHolders ==
    << [holder |-> u1, pred |-> OWL_unionOf, head |-> ListCell(1), nxt |-> ListCell(2),
        first |-> A, second |-> B],
       [holder |-> o1, pred |-> OWL_oneOf, head |-> ListCell(3), nxt |-> ListCell(4),
        first |-> A, second |-> B],
       [holder |-> e1, pred |-> OWL_intersectionOf, head |-> ListCell(5), nxt |-> ListCell(6),
        first |-> r1, second |-> B],
       [holder |-> d1, pred |-> OWL_members, head |-> ListCell(7), nxt |-> ListCell(8),
        first |-> A, second |-> B] >>

\* a list well formed, with a cyclic rdf:rest chain, with a chain that breaks
\* off after the second cell, or not there at all
ListShapes == {"good", "cyclic", "broken", "absent"}

ListTriples(h, shape) ==
    IF shape = "absent" THEN {}
    ELSE {<<h.holder, h.pred, h.head>>,
          <<h.head, RDF_first, h.first>>, <<h.head, RDF_rest, h.nxt>>,
          <<h.nxt, RDF_first, h.second>>}
            \cup (IF shape = "good" THEN {<<h.nxt, RDF_rest, RDF_nil>>}
                  ELSE IF shape = "cyclic" THEN {<<h.nxt, RDF_rest, h.head>>}
                  ELSE {})

\* a class, a property and a disjointness node that hold the lists as union
\* domain, oneOf range, equivalent intersection (with a restriction among its
\* items) and members
ListBase ==
    {<<A, RDF_type, OWL_Class>>, <<B, RDF_type, OWL_Class>>,
     <<P, RDF_type, OWL_ObjectProperty>>,
     <<P, RDFS_domain, u1>>, <<u1, RDF_type, OWL_Class>>,
     <<P, RDFS_range, o1>>,
     <<A, OWL_equivalentClass, e1>>, <<e1, RDF_type, OWL_Class>>,
     <<r1, RDF_type, OWL_Restriction>>, <<r1, OWL_onProperty, P>>,
     <<r1, OWL_someValuesFrom, B>>,
     <<d1, RDF_type, OWL_AllDisjointClasses>>}

ListGraphs ==
    {ListBase \cup UNION {ListTriples(ListHolders[i], shapes[i]) : i \in DOMAIN ListHolders} :
        shapes \in [DOMAIN ListHolders -> ListShapes]}

InitLists ==
    /\ mode = "export"
    /\ pc = "ttl"
    /\ graph \in ListGraphs
    /\ enum_order \in {"asc", "desc"}
    /\ rows = NoRows
    /\ regraph = NoGraph
    /\ identical = "unknown"
    /\ IdleLiteral
    /\ IdleReport
    /\ IdleCli
    /\ IdleDsi

NextLists == GraphToTable

SpecLists == InitLists /\ [][NextLists]_vars

-----------------------------------------------------------------------------
(* Properties of the export of malformed lists *)

IsCyclic(h) == <<h.nxt, RDF_rest, h.head>> \in graph

IsBroken(h) ==
    /\ <<h.holder, h.pred, h.head>> \in graph
    /\ ~\E t \in graph : t[1] = h.nxt /\ t[2] = RDF_rest

\* the rdf:first / rdf:rest triples of the list of h
CellTriples(h) ==
    {t \in graph : t[1] \in {h.head, h.nxt} /\ t[2] \in {RDF_first, RDF_rest}}

CyclicLists == {i \in DOMAIN ListHolders : IsCyclic(ListHolders[i])}

BrokenLists == {i \in DOMAIN ListHolders : IsBroken(ListHolders[i])}

\* the graph with the lists in S emptied of their items
WithoutItems(S) == graph \ UNION {CellTriples(ListHolders[i]) : i \in S}

\* the rdf:rest triples that end the broken lists where they break off
Terminators == {<<ListHolders[i].nxt, RDF_rest, RDF_nil>> : i \in BrokenLists}

\* C27: graph_to_table completes on a graph with a malformed list (cyclic or
\* broken rdf:rest chain) under owl:unionOf, owl:intersectionOf, owl:oneOf or
\* owl:members; the list is treated as having no items and the rows of every
\* other entity are as if the list were absent.
C27_MalformedListHasNoItems ==
    (mode = "export" /\ pc = "rows") =>
        rows = graph_to_table(WithoutItems(CyclicLists \cup BrokenLists))

\* C27 (amended): graph_to_table completes on such a graph; a list with a
\* cyclic rdf:rest chain is treated as having no items, a list whose chain
\* breaks off is read up to the break, and all other rows are unchanged.
C27_CyclicListHasNoItems ==
    (mode = "export" /\ pc = "rows") =>
        rows = graph_to_table(WithoutItems(CyclicLists) \cup Terminators)

C27_Witness ==
    /\ mode = "export" /\ pc = "rows"
    /\ IsCyclic(ListHolders[1])
    /\ IsCyclic(ListHolders[3])
    /\ IsBroken(ListHolders[4])
    /\ \E i \in 1..Len(rows) : rows[i].id = Str(P) /\ rows[i].property_domain = NoStr
    /\ \E i \in 1..Len(rows) : rows[i].id = Str(P) /\ rows[i].property_range # NoStr

-----------------------------------------------------------------------------
(* D-SI conversion (dsi2dsio/DSI2DSIO.py, dsi2dsio/src/util.py): units *)

\* namespaces of config/prefixes.json, which the scripts read at start-up
SIS(n) == URIRef(s_scheme \o <<"i", "#">> \o n)
EX(n) == URIRef(s_scheme \o <<"e", "/">> \o n)
units_ns == s_scheme \o <<"u", "/">>

s_one == <<"o", "n", "e">>
s_percent == <<"p", "e", "r", "c", "e", "n", "t">>
s_per == <<"p", "e", "r">>
s_tothe == <<"t", "o", "t", "h", "e", "{">>
s_degreecelsius == <<"d", "e", "g", "r", "e", "e", "c", "e", "l", "s", "i", "u", "s">>
s_degreeCelsius == <<"d", "e", "g", "r", "e", "e", "C", "e", "l", "s", "i", "u", "s">>
s_metre == <<"m", "e", "t", "r", "e">>
s_second == <<"s", "e", "c", "o", "n", "d">>
s_tonne == <<"t", "o", "n", "n", "e">>
s_kilo == <<"k", "i", "l", "o">>
s_milli == <<"m", "i", "l", "l", "i">>

si_prefixes ==
    { <<"q", "u", "e", "c", "t", "o">>, <<"r", "o", "n", "t", "o">>,
      <<"y", "o", "c", "t", "o">>, <<"z", "e", "p", "t", "o">>,
      <<"a", "t", "t", "o">>, <<"f", "e", "m", "t", "o">>,
      <<"p", "i", "c", "o">>, <<"n", "a", "n", "o">>,
      <<"m", "i", "c", "r", "o">>, s_milli,
      <<"c", "e", "n", "t", "i">>, <<"d", "e", "c", "i">>,
      <<"d", "e", "c", "a">>, <<"h", "e", "c", "t", "o">>,
      s_kilo, <<"m", "e", "g", "a">>, <<"g", "i", "g", "a">>,
      <<"t", "e", "r", "a">>, <<"p", "e", "t", "a">>, <<"e", "x", "a">>,
      <<"z", "e", "t", "t", "a">>, <<"y", "o", "t", "t", "a">>,
      <<"r", "o", "n", "n", "a">>, <<"q", "u", "e", "t", "t", "a">> }

\* [elt for elt in unit.split("\\") if elt]
UnitElements(unit) == SelectSeq(Split(unit, "\\"), LAMBDA elt : elt # <<>>)

\* the loop of parse_dsi_unit from element n on; last_elt is <<>> for None,
\* which no element equals because the empty ones were filtered out
RECURSIVE ParseElements(_, _, _, _, _)
ParseElements(elements, n, last_elt, per, si_unit) ==
    IF n > Len(elements) THEN si_unit
    ELSE LET elt == elements[n]
         IN  IF elt = s_per
             THEN ParseElements(elements, n + 1, elt, TRUE, si_unit)
             ELSE IF StartsWith(elt, s_tothe)
             THEN ParseElements(elements, n + 1, elt, per,
                      si_unit \o Split(Slice(elt, Len(s_tothe) + 1, Len(elt)), "}")[1])
             ELSE IF last_elt \notin si_prefixes /\ last_elt # <<>>
             THEN ParseElements(elements, n + 1, elt, per,
                      si_unit \o <<".">> \o elt
                              \o (IF per THEN <<"-", "1">> ELSE <<>>))
             ELSE IF elt = s_degreecelsius
             THEN ParseElements(elements, n + 1, elt, per, si_unit \o s_degreeCelsius)
             ELSE ParseElements(elements, n + 1, elt, per, si_unit \o elt)

\* parse_dsi_unit: the D-SI unit string as a SIRP unit identifier
parse_dsi_unit(unit) ==
    units_ns \o ParseElements(UnitElements(unit), 1, <<>>, FALSE, <<>>)

\* what requests.get can do: answer with a status code and a text, run into
\* the timeout, or fail with another RequestException
Documents == {"unit", "empty", "malformed"}
StatusCodes == {200, 404, 500}
Responses ==
    [kind : {"answer"}, status_code : StatusCodes, text : Documents]
        \cup [kind : {"timeout", "failed"}, status_code : {0}, text : {"empty"}]

NoText == "None"

\* get_si_unit_expression: the text of a 200 answer, else None
get_si_unit_expression(resp) ==
    IF resp.kind = "answer" /\ resp.status_code = 200 THEN resp.text ELSE NoText

\* the fetch failed, timed out or was answered with a status other than 200
FetchFailed(resp) == resp.kind # "answer" \/ resp.status_code # 200

\* the triples of a served unit definition
UnitDefinition(pid) ==
    { <<URIRef(pid), RDF_type, SIS(<<"M", "U">>)>>,
      <<URIRef(pid), RDFS(<<"l">>), Literal(pid, NoStr, NoStr)>> }

\* Graph().parse(data=..., format="turtle"): the triples, or an exception
TurtleParses(text) == text # "malformed"
TurtleTriples(text, pid) == IF text = "unit" THEN UnitDefinition(pid) ELSE {}

hasSIMeasurementUnit == SIS(<<"h", "S", "M", "U">>)

\* the fetch is skipped for identifiers holding "one" or "percent"
UnitIsFetched(si_unit_pid) ==
    ~Contains(si_unit_pid, s_one) /\ ~Contains(si_unit_pid, s_percent)

\* create_unit with the link added inside the "is not None" branch
create_unit_link_on_success(gr, text, unit_identifier_type, instance_iri, property_iri, resp) ==
    LET with_id == gr \cup {<<instance_iri, property_iri,
                             Literal(text, NoStr, unit_identifier_type)>>}
        si_unit_pid == parse_dsi_unit(text)
        unit_instance == get_si_unit_expression(resp)
        link == <<instance_iri, hasSIMeasurementUnit, URIRef(si_unit_pid)>>
    IN  IF ~UnitIsFetched(si_unit_pid) \/ unit_instance = NoText
        THEN [g |-> with_id, raised |-> FALSE]
        ELSE IF ~TurtleParses(unit_instance)
        THEN [g |-> with_id, raised |-> TRUE]
        ELSE [g |-> with_id \cup TurtleTriples(unit_instance, si_unit_pid) \cup {link},
              raised |-> FALSE]

\* create_unit on graph gr; resp is what the remote end does if asked.
\* Yields the graph left behind and whether the call raised.
create_unit(gr, text, unit_identifier_type, instance_iri, property_iri, resp) ==
    LET with_id == gr \cup {<<instance_iri, property_iri,
                             Literal(text, NoStr, unit_identifier_type)>>}
        si_unit_pid == parse_dsi_unit(text)
        unit_instance == get_si_unit_expression(resp)
        link == <<instance_iri, hasSIMeasurementUnit, URIRef(si_unit_pid)>>
    IN  IF ~UnitIsFetched(si_unit_pid)
        THEN [g |-> with_id, raised |-> FALSE]
        ELSE IF unit_instance = NoText
        THEN [g |-> with_id \cup {link}, raised |-> FALSE]
        ELSE IF ~TurtleParses(unit_instance)
        THEN [g |-> with_id, raised |-> TRUE]
        ELSE [g |-> with_id \cup TurtleTriples(unit_instance, si_unit_pid) \cup {link},
              raised |-> FALSE]

\* mapping of the unit element (config/mapping.json): property and datatype
unit_property == SIS(<<"h", "U">>)
unit_type == XSD(<<"s">>)

inst1 == EX(<<"i", "1">>)
inst2 == EX(<<"i", "2">>)

Units ==
    { <<"\\">> \o s_metre, <<"\\">> \o s_one, <<"\\">> \o s_percent,
      <<"\\">> \o s_tonne, <<"\\">> \o s_kilo \o <<"\\">> \o s_metre,
      <<"\\">> \o s_metre \o <<"\\">> \o s_per \o <<"\\">> \o s_second,
      <<"\\">> \o s_metre \o <<"\\">> \o s_tothe \o <<"2", "}">>,
      <<"\\">> \o s_degreecelsius }

\* triples the instances graph may hold before the unit element is reached
UnitBase ==
    { <<inst1, RDF_type, SIS(<<"R">>)>>,
      <<inst1, SIS(<<"h", "V">>), Literal(<<"1">>, NoStr, XSD(<<"d">>))>>,
      <<inst2, hasSIMeasurementUnit, URIRef(units_ns \o s_metre)>> }

InitUnit ==
    /\ mode = "unit"
    /\ pc = "xml"
    /\ instances_graph \in SUBSET UnitBase
    /\ child \in [text : Units]
    /\ response = <<>>
    /\ IdleLiteral
    /\ IdleTable
    /\ IdleReport
    /\ IdleCli

\* process_elt, property_type == 'unit': create_unit on the child element
ProcessUnit ==
    /\ mode = "unit"
    /\ pc = "xml"
    /\ \E resp \in Responses :
        LET out == create_unit(instances_graph, child.text, unit_type,
                               inst1, unit_property, resp)
        IN  /\ instances_graph' = out.g
            /\ response' = IF UnitIsFetched(parse_dsi_unit(child.text))
                           THEN <<resp>> ELSE <<>>
            /\ pc' = IF out.raised THEN "raised" ELSE "done"
    /\ UNCHANGED <<mode, child, litVars, tableVars, reportVars, cliVars>>

NextUnit == ProcessUnit

SpecUnit == InitUnit /\ [][NextUnit]_vars

\* the two triples create_unit owes the instance whatever the fetch does
UnitIdentifier(text) == <<inst1, unit_property, Literal(text, NoStr, unit_type)>>
UnitLink(text) == <<inst1, hasSIMeasurementUnit, URIRef(parse_dsi_unit(text))>>

\* C28: when the fetch of a unit definition fails, times out or is answered
\* with a status other than 200, get_si_unit_expression returns None, the
\* call does not raise, and the instances graph grows by exactly the unit
\* identifier literal and the hasSIMeasurementUnit link.
C28_FailedFetchKeepsUnitLink ==
    [][ (mode = "unit" /\ pc = "xml" /\ response' # <<>>
            /\ FetchFailed(response'[1]))
        => /\ get_si_unit_expression(response'[1]) = NoText
           /\ pc' = "done"
           /\ instances_graph' =
                instances_graph \cup {UnitIdentifier(child.text), UnitLink(child.text)} ]_vars

C28_Witness ==
    /\ mode = "unit"
    /\ pc = "done"
    /\ response # <<>>
    /\ FetchFailed(response[1])
    /\ UnitLink(child.text) \in instances_graph
    /\ UnitIdentifier(child.text) \in instances_graph
    /\ UnitDefinition(parse_dsi_unit(child.text)) \cap instances_graph = {}

-----------------------------------------------------------------------------
(* Export of one triple set from stores that enumerate differently *)

\* the same triples loaded again (from a file that lists them in another
\* order), so that the store enumerates them differently; rows still holds
\* the table of the previous export
LoadReordered ==
    /\ mode = "export"
    /\ pc = "rows"
    /\ \E o \in {"asc", "desc"} \ {enum_order} : enum_order' = o
    /\ pc' = "ttl"
    /\ UNCHANGED <<mode, graph, rows, regraph, identical, litVars, reportVars, cliVars, dsiVars>>

NextOrders == GraphToTable \/ LoadReordered

SpecOrders == InitExport /\ [][NextOrders]_vars

\* C29: graph_to_table is a function of the triple set: exporting the same
\* triples from a store that enumerates them in another order gives the
\* same row sequence as the export before.
C29_RowsIndependentOfEnumeration ==
    [][ (mode = "export" /\ pc = "ttl" /\ rows # NoRows /\ pc' = "rows")
        => rows' = rows ]_vars

-----------------------------------------------------------------------------
(* D-SI conversion: covariance matrices *)

\* most column elements of a covarianceMatrix, most covariance elements of
\* a column
MaxColumns == 2
MaxCovariances == 2

hasCovariance == SIS(<<"h", "C">>)
hasColumnIndex == SIS(<<"h", "C", "I">>)
hasRowIndex == SIS(<<"h", "R", "I">>)
hasValue == SIS(<<"h", "V">>)
Covariance == SIS(<<"C">>)
CovarianceMatrix == SIS(<<"C", "M">>)

\* Literal(n, datatype=xsd:positiveInteger)
IndexLiteral(n) == Literal(NumStr(n), NoStr, XSD(<<"p", "I">>))

\* create_uri_ref("ex", str(uuid4())) for the n-th covariance of the matrix
CovarianceIri(n) == EX(<<"c">> \o NumStr(n))

\* the triples create_covariance_matrix adds for one covariance element
\* before it turns to the unit
CovarianceTriples(matrix_iri, covariance_iri, row_index, column_index, value) ==
    { <<matrix_iri, hasCovariance, covariance_iri>>,
      <<covariance_iri, RDF_type, Covariance>>,
      <<covariance_iri, hasColumnIndex, IndexLiteral(column_index)>>,
      <<covariance_iri, hasRowIndex, IndexLiteral(row_index)>>,
      <<covariance_iri, hasValue, Literal(value, NoStr, XSD(<<"d">>))>> }

\* the two loops of create_covariance_matrix from the column_index-th
\* covariance of the row_index-th column on; n counts the covariances
\* reached, acc is the graph so far and whether create_unit raised
RECURSIVE CovarianceLoop(_, _, _, _, _, _, _)
CovarianceLoop(acc, columns, row_index, column_index, n, resps, matrix_iri) ==
    IF acc.raised \/ row_index > Len(columns) THEN acc
    ELSE IF column_index > Len(columns[row_index])
    THEN CovarianceLoop(acc, columns, row_index + 1, 1, n, resps, matrix_iri)
    ELSE LET covariance == columns[row_index][column_index]
             covariance_iri == CovarianceIri(n)
             out == create_unit(
                        acc.g \cup CovarianceTriples(matrix_iri, covariance_iri,
                                       row_index, column_index, covariance.value),
                        covariance.unit, unit_type, covariance_iri, unit_property,
                        resps[n])
             asked == IF UnitIsFetched(parse_dsi_unit(covariance.unit))
                      THEN Append(acc.asked, resps[n]) ELSE acc.asked
         IN  CovarianceLoop([g |-> out.g, raised |-> out.raised, asked |-> asked],
                 columns, row_index, column_index + 1, n + 1, resps, matrix_iri)

\* create_covariance_matrix on graph gr
create_covariance_matrix(gr, columns, instance_iri, property_iri, child_instance_iri, resps) ==
    CovarianceLoop(
        [g |-> gr \cup { <<instance_iri, property_iri, child_instance_iri>>,
                         <<child_instance_iri, RDF_type, CovarianceMatrix>> },
         raised |-> FALSE, asked |-> <<>>],
        columns, 1, 1, 1, resps, child_instance_iri)

\* mapping of the covarianceMatrix element: its property
matrix_property == SIS(<<"h", "C", "M">>)
matrix1 == EX(<<"m", "1">>)

\* what the remote end does for the units of a matrix
MatrixResponses ==
    { [kind |-> "answer", status_code |-> 200, text |-> "unit"],
      [kind |-> "answer", status_code |-> 200, text |-> "malformed"],
      [kind |-> "timeout", status_code |-> 0, text |-> "empty"] }

\* covariance elements: a value and a unit
CovarianceElement(unit) == [value |-> <<"1">>, unit |-> unit]

ColumnsOf(unit) ==
    UNION {[1..c -> UNION {[1..k -> {CovarianceElement(unit)}] : k \in 0..MaxCovariances}] :
              c \in 0..MaxColumns}

Matrices == UNION {ColumnsOf(unit) : unit \in {<<"\\">> \o s_metre, <<"\\">> \o s_one}}

RECURSIVE CountCovariances(_)
CountCovariances(columns) ==
    IF columns = <<>> THEN 0 ELSE Len(Head(columns)) + CountCovariances(Tail(columns))

InitMatrix ==
    /\ mode = "matrix"
    /\ pc = "xml"
    /\ instances_graph = {<<inst1, RDF_type, SIS(<<"R">>)>>}
    /\ child \in [columns : Matrices]
    /\ response = <<>>
    /\ IdleLiteral
    /\ IdleTable
    /\ IdleReport
    /\ IdleCli

\* process_elt, property_type == 'covarianceMatrix'
ProcessCovarianceMatrix ==
    /\ mode = "matrix"
    /\ pc = "xml"
    /\ \E resps \in [1..CountCovariances(child.columns) -> MatrixResponses] :
        LET out == create_covariance_matrix(instances_graph, child.columns,
                       inst1, matrix_property, matrix1, resps)
        IN  /\ instances_graph' = out.g
            /\ response' = out.asked
            /\ pc' = IF out.raised THEN "raised" ELSE "done"
    /\ UNCHANGED <<mode, child, litVars, tableVars, reportVars, cliVars>>

NextMatrix == ProcessCovarianceMatrix

SpecMatrix == InitMatrix /\ [][NextMatrix]_vars

\* the number of the j-th covariance of the i-th column, counted over the matrix
CovarianceNumber(columns, i, j) == CountCovariances(SubSeq(columns, 1, i - 1)) + j

\* the covariance instances of the matrix
CovarianceInstances ==
    {t[3] : t \in {u \in instances_graph : u[1] = matrix1 /\ u[2] = hasCovariance}}

\* the index pair of a covariance instance
IndexPair(c) ==
    << {t[3] : t \in {u \in instances_graph : u[1] = c /\ u[2] = hasRowIndex}},
       {t[3] : t \in {u \in instances_graph : u[1] = c /\ u[2] = hasColumnIndex}} >>

\* C30: the j-th covariance of the i-th column element gets hasColumnIndex i
\* and hasRowIndex j, and no two covariance instances of the matrix share
\* their (hasRowIndex, hasColumnIndex) pair.
C30_ColumnElementGivesColumnIndex ==
    (mode = "matrix" /\ pc = "done")
    => /\ \A i \in 1..Len(child.columns) : \A j \in 1..Len(child.columns[i]) :
            IndexPair(CovarianceIri(CovarianceNumber(child.columns, i, j)))
                = << {IndexLiteral(j)}, {IndexLiteral(i)} >>
       /\ \A c1, c2 \in CovarianceInstances :
            c1 # c2 => IndexPair(c1) # IndexPair(c2)

=============================================================================
